---- MODULE Spec2Model ----
(***************************************************************************)
(* Verification model of the face-analysis backend                         *)
(* (backend/app/services/analysis.py).                                     *)
(*                                                                         *)
(* Number representation.  The program computes in binary floating point;  *)
(* the model computes in decimal fixed point on integers:                  *)
(*   - a facial dimension is an integer number of centi-units (0.01 px);   *)
(*   - the guard epsilon 1e-6 px is EPS units of 1e-4 centi-unit, carried  *)
(*     as the low limb of a two-limb number <<whole, frac>>, so that a     *)
(*     comparison of an epsilon-guarded quotient with a threshold is       *)
(*     exact;                                                              *)
(*   - the jaw angle is an integer number of milliradians.                 *)
(***************************************************************************)
EXTENDS Integers, Sequences, FiniteSets, TLC

(***************************************************************************)
(* Bounds of the model.                                                    *)
(***************************************************************************)
\* widths are drawn from a 6 px grid of MaxWidthStep+1 values (and 0, 130, 150 px)
MaxWidthStep == 4
\* lengths are drawn from a 6 px grid of MaxLengthStep+1 values (and 0, 200 px)
MaxLengthStep == 8
\* generate_overlay is applied to landmark sequences of at most MaxPoints points
MaxPoints == 3
\* compute_symmetry: the nose is tried at MaxNoseStep + 1 positions across the face
MaxNoseStep == 4
\* analyze_image: at most MaxCalls invocations in a run
MaxCalls == 3
\* impact_analyze_browser: at most MaxBrowserCalls requests reach analyze_image
MaxBrowserCalls == 2
\* the clock advances at most MaxTime ticks
MaxTime == 2
\* login: at most MaxSessions tokens are issued in a run
MaxSessions == 2
\* analyze_image is applied to images of ImageSide x ImageSide pixels
ImageSide == 6

(***************************************************************************)
(* Fixed-point helpers.                                                    *)
(***************************************************************************)
\* number of low-limb units (1e-4 centi-unit) in one centi-unit
Frac == 10^4

\* the denominator guard 1e-6 (px), in low-limb units
EPS == 1

\* pi in units of 1e-7 rad, rounded down
PiE7 == 31415926

\* <<h1, l1>> < <<h2, l2>> for two-limb numbers with 0 <= l < Frac
TwoLimbLess(x, y) == x[1] < y[1] \/ (x[1] = y[1] /\ x[2] < y[2])

\* num / (den + nEps * 1e-6) < p / q, for den >= 0, q > 0 and p * nEps * EPS < Frac
RatioLT(num, den, nEps, p, q) ==
    TwoLimbLess(<<num * q, 0>>, <<p * den, p * nEps * EPS>>)

\* num / (den + nEps * 1e-6) > p / q
RatioGT(num, den, nEps, p, q) ==
    TwoLimbLess(<<p * den, p * nEps * EPS>>, <<num * q, 0>>)

\* angle (mrad) < pi / (tenths / 10): angle * tenths * 1e3 < pi * 1e7 (pi is irrational,
\* so for integers the comparison with the rounded-down PiE7 is <=)
AngleLT(angle, tenths) == angle * tenths * 1000 <= PiE7

VARIABLES
    dimensions,     \* classify_face: the FaceDimensions record handed in
    shape,          \* classify_face: the value returned ("unset" before the call)
    stage,          \* classify_face: "input" before the call, "done" after it
    tone_call,      \* tone bracket: the latest evaluation [called, ita, tone]
    prev_tone_call, \* tone bracket: the evaluation before the latest one
    undertone_call, \* undertone: the latest evaluation [called, lab, undertone]
    overlay_shape,  \* generate_overlay: the shape argument
    overlay_points, \* generate_overlay: the landmark sequence argument
    overlay_result, \* generate_overlay: [called, error, bounding_box, zones]
    np_image,       \* analyze_image: the decoded RGB image
    face_found,     \* analyze_image: whether the detector returned a face
    points,         \* analyze_image: the landmark sequence of that face
    response,       \* analyze_image: the response, or the exception in `error`
    analysis_stage, \* analyze_image: "input" before the call, "done" after it
    analysis_calls, \* analyze_image: the number of invocations so far
    report_log,     \* analyze_image: every (input, response) pair seen so far
    rec_call,       \* build_recommendations: the latest call [called, shape, undertone, result]
    prev_rec_call,  \* build_recommendations: the call before the latest one
    sym_points,     \* compute_symmetry: the landmark sequence argument
    sym_box,        \* compute_symmetry: the bounding box argument
    sym_result,     \* compute_symmetry: [called, score, description, guidance, eye_delta]
    api_request,    \* impact_analyze_browser: the request body being answered
    api_response,   \* impact_analyze_browser: [status, detail, result, history_id, created_at]
    history_store,  \* HistoryStorage: the JSON list in history_store.json, newest first
    at_entry,       \* impact_analyze_browser: the store and the call count on entry
    now,            \* datetime.utcnow(), in seconds
    login_request,  \* login: the request body being answered
    login_response, \* login: [status, detail, access_token, expires_in, expires_at]
    token_store,    \* AuthService._token_store: token -> expires_at
    auth_entry,     \* login: the token store and the time on entry
    insight_call,   \* insights helpers: the latest call [op, pts, height, dims, result]
    otp_store,      \* AuthService._otp_store: phone -> [code, expires_at]
    session_call,   \* AuthService: the latest call and its outcome
    session_entry,  \* AuthService: the two stores and the time on entry of that call
    session_ghost,  \* AuthService: what was issued, revoked and rejected so far
    workers,        \* threads inside a service method: thread -> [pc, locals]
    lock_owner,     \* the service's Lock: the thread that holds it, 0 when free
    serial_store,   \* HistoryStorage: the calls applied one by one in lock order
    history_call    \* HistoryStorage: the latest delete or clear [op, record_id, result, status]

classifyVars == <<dimensions, shape, stage>>
toneVars == <<tone_call, prev_tone_call>>
undertoneVars == <<undertone_call>>
overlayVars == <<overlay_shape, overlay_points, overlay_result>>
analysisVars ==
    <<np_image, face_found, points, response, analysis_stage, analysis_calls, report_log>>

recommendVars == <<rec_call, prev_rec_call>>

\* the variables of the components outside the five above
symmetryVars == <<sym_points, sym_box, sym_result>>
browserVars == <<api_request, api_response, history_store, at_entry>>
clockVars == <<now>>
authVars == <<login_request, login_response, token_store, auth_entry>>
insightVars == <<insight_call>>
sessionVars == <<otp_store, session_call, session_entry, session_ghost>>
raceVars == <<workers, lock_owner, serial_store>>
historyCallVars == <<history_call>>
extraVars == <<insightVars, sessionVars, raceVars, historyCallVars>>
serviceVars == <<recommendVars, symmetryVars, browserVars, clockVars, authVars, extraVars>>

vars == <<classifyVars, toneVars, undertoneVars, overlayVars, analysisVars, serviceVars>>

(***************************************************************************)
(* classify_face                                                           *)
(***************************************************************************)
FaceShapes == {"round", "oval", "square", "heart", "oblong", "diamond"}

\* length_ratio = length / (width_avg + 1e-6) with width_avg = (f + c + j) / 3,
\* i.e. 3 * length / ((f + c + j) + 3e-6), compared with pct / 100
length_ratio_lt(d, pct) ==
    RatioLT(3 * d.face_length,
            d.forehead_width + d.cheekbone_width + d.jaw_width, 3, pct, 100)

\* cheek_to_jaw = cheekbone / (jaw + 1e-6) > pct / 100
cheek_to_jaw_gt(d, pct) == RatioGT(d.cheekbone_width, d.jaw_width, 1, pct, 100)

\* forehead_to_jaw = forehead / (jaw + 1e-6), compared with pct / 100
forehead_to_jaw_gt(d, pct) == RatioGT(d.forehead_width, d.jaw_width, 1, pct, 100)
forehead_to_jaw_lt(d, pct) == RatioLT(d.forehead_width, d.jaw_width, 1, pct, 100)

\* mutant: the final `return "oval"` is missing, the function falls off its end
classify_face_no_default(d) ==
    IF length_ratio_lt(d, 105)
    THEN IF AngleLT(d.jaw_angle, 34) THEN "square"
         ELSE IF cheek_to_jaw_gt(d, 105) THEN "heart"
         ELSE "round"
    ELSE IF ~length_ratio_lt(d, 135)
    THEN IF cheek_to_jaw_gt(d, 110) /\ forehead_to_jaw_lt(d, 95) THEN "diamond"
         ELSE "oblong"
    ELSE IF cheek_to_jaw_gt(d, 115) THEN "heart"
    ELSE IF AngleLT(d.jaw_angle, 35) THEN "square"
    ELSE IF cheek_to_jaw_gt(d, 105) /\ forehead_to_jaw_gt(d, 105) THEN "heart"
    ELSE "None"

\* mutant: in the short band the cheek test is evaluated before the jaw-angle test
classify_face_cheek_first(d) ==
    IF length_ratio_lt(d, 105)
    THEN IF cheek_to_jaw_gt(d, 105) THEN "heart"
         ELSE IF AngleLT(d.jaw_angle, 34) THEN "square"
         ELSE "round"
    ELSE IF ~length_ratio_lt(d, 135)
    THEN IF cheek_to_jaw_gt(d, 110) /\ forehead_to_jaw_lt(d, 95) THEN "diamond"
         ELSE "oblong"
    ELSE IF cheek_to_jaw_gt(d, 115) THEN "heart"
    ELSE IF AngleLT(d.jaw_angle, 35) THEN "square"
    ELSE IF cheek_to_jaw_gt(d, 105) /\ forehead_to_jaw_gt(d, 105) THEN "heart"
    ELSE "oval"

\* mutant: the long band starts at length_ratio > 1.35 and its diamond test is an `or`
classify_face_diamond_or(d) ==
    IF length_ratio_lt(d, 105)
    THEN IF AngleLT(d.jaw_angle, 34) THEN "square"
         ELSE IF cheek_to_jaw_gt(d, 105) THEN "heart"
         ELSE "round"
    ELSE IF ~length_ratio_lt(d, 135)
    THEN IF cheek_to_jaw_gt(d, 110) \/ forehead_to_jaw_lt(d, 95) THEN "diamond"
         ELSE "oblong"
    ELSE IF cheek_to_jaw_gt(d, 115) THEN "heart"
    ELSE IF AngleLT(d.jaw_angle, 35) THEN "square"
    ELSE IF cheek_to_jaw_gt(d, 105) /\ forehead_to_jaw_gt(d, 105) THEN "heart"
    ELSE "oval"

\* mutant: in the middle band the jaw-angle test is evaluated before cheek_to_jaw > 1.15
classify_face_angle_first(d) ==
    IF length_ratio_lt(d, 105)
    THEN IF AngleLT(d.jaw_angle, 34) THEN "square"
         ELSE IF cheek_to_jaw_gt(d, 105) THEN "heart"
         ELSE "round"
    ELSE IF ~length_ratio_lt(d, 135)
    THEN IF cheek_to_jaw_gt(d, 110) /\ forehead_to_jaw_lt(d, 95) THEN "diamond"
         ELSE "oblong"
    ELSE IF AngleLT(d.jaw_angle, 35) THEN "square"
    ELSE IF cheek_to_jaw_gt(d, 115) THEN "heart"
    ELSE IF cheek_to_jaw_gt(d, 105) /\ forehead_to_jaw_gt(d, 105) THEN "heart"
    ELSE "oval"

classify_face(d) ==
    IF length_ratio_lt(d, 105)
    THEN IF AngleLT(d.jaw_angle, 34) THEN "square"
         ELSE IF cheek_to_jaw_gt(d, 105) THEN "heart"
         ELSE "round"
    ELSE IF ~length_ratio_lt(d, 135)
    THEN IF cheek_to_jaw_gt(d, 110) /\ forehead_to_jaw_lt(d, 95) THEN "diamond"
         ELSE "oblong"
    ELSE IF cheek_to_jaw_gt(d, 115) THEN "heart"
    ELSE IF AngleLT(d.jaw_angle, 35) THEN "square"
    ELSE IF cheek_to_jaw_gt(d, 105) /\ forehead_to_jaw_gt(d, 105) THEN "heart"
    ELSE "oval"

(***************************************************************************)
(* analyze_skin_tone: the tone bracket of an ITA value and the undertone   *)
(* of a Lab value.  ITA is an integer number of centi-degrees; L, a and b  *)
(* are integers in units of 1e-4 (LabScale).                               *)
(***************************************************************************)
LabScale == 10^4

Tones == {"very_light", "light", "medium", "tan", "deep"}

\* mutant: the bracket tests are strict, a threshold value falls in the lower bracket
tone_of_ita_strict(ita) ==
    IF ita > 55 * 100 THEN "very_light"
    ELSE IF ita > 41 * 100 THEN "light"
    ELSE IF ita > 28 * 100 THEN "medium"
    ELSE IF ita > 10 * 100 THEN "tan"
    ELSE "deep"

\* the if / elif chain on ita (centi-degrees)
tone_of_ita(ita) ==
    IF ita >= 55 * 100 THEN "very_light"
    ELSE IF ita >= 41 * 100 THEN "light"
    ELSE IF ita >= 28 * 100 THEN "medium"
    ELSE IF ita >= 10 * 100 THEN "tan"
    ELSE "deep"

\* mutant: the warm test is evaluated first and the cool test only needs a < -2
undertone_of_lab_warm_first(lab) ==
    IF lab[3] > 15 * LabScale THEN "warm"
    ELSE IF lab[2] < (-2) * LabScale THEN "cool"
    ELSE "neutral"

\* the if / elif chain on lab = <<L, a, b>>
undertone_of_lab(lab) ==
    IF lab[2] < (-2) * LabScale /\ lab[3] < 10 * LabScale THEN "cool"
    ELSE IF lab[3] > 15 * LabScale THEN "warm"
    ELSE "neutral"

(***************************************************************************)
(* Numeric library functions in fixed point.                               *)
(*   Values in [0, 1] (colour channels, XYZ, the cosine) and Lab values    *)
(*   are integers in units of 1e-4 (LabScale); products are rounded down.  *)
(*   Angles come out of a 16-step CORDIC iteration in microradians.        *)
(***************************************************************************)
\* a * b for two fixed-point values
MulS(a, b) == (a * b) \div LabScale

Abs(v) == IF v < 0 THEN -v ELSE v

RECURSIVE SqrtSearch(_, _, _)
SqrtSearch(n, lo, hi) ==
    IF lo >= hi THEN lo
    ELSE LET mid == (lo + hi + 1) \div 2
         IN  IF mid * mid <= n THEN SqrtSearch(n, mid, hi)
             ELSE SqrtSearch(n, lo, mid - 1)

\* the integer square root (np.linalg.norm of a 2-vector takes it of dx^2 + dy^2)
ISqrt(n) == SqrtSearch(n, 0, 46340)

Pow3(y) == MulS(MulS(y, y), y)
Pow5(y) == MulS(MulS(MulS(MulS(y, y), y), y), y)

RECURSIVE Root3Search(_, _, _)
Root3Search(v, lo, hi) ==
    IF lo >= hi THEN lo
    ELSE LET mid == (lo + hi + 1) \div 2
         IN  IF Pow3(mid) <= v THEN Root3Search(v, mid, hi)
             ELSE Root3Search(v, lo, mid - 1)

\* component ** (1 / 3)
Root3(v) == Root3Search(v, 0, 2 * LabScale)

RECURSIVE Root5Search(_, _, _)
Root5Search(v, lo, hi) ==
    IF lo >= hi THEN lo
    ELSE LET mid == (lo + hi + 1) \div 2
         IN  IF Pow5(mid) <= v THEN Root5Search(v, mid, hi)
             ELSE Root5Search(v, lo, mid - 1)

\* t ** 2.4 = t^2 * (t^2) ** (1 / 5)
Pow2_4(t) == LET t2 == MulS(t, t) IN MulS(t2, Root5Search(t2, 0, 2 * LabScale))

\* arctan(2^-i) in microradians, i = 0 .. 15
AtanTable ==
    <<785398, 463648, 244979, 124355, 62419, 31240, 15624, 7812,
      3906, 1953, 977, 488, 244, 122, 61, 31>>

RECURSIVE Cordic(_, _, _, _)
Cordic(x, y, z, i) ==
    IF i > Len(AtanTable) THEN z
    ELSE LET sh == 2^(i - 1)
         IN  IF y > 0
             THEN Cordic(x + (y \div sh), y - (x \div sh), z + AtanTable[i], i + 1)
             ELSE Cordic(x - (y \div sh), y + (x \div sh), z - AtanTable[i], i + 1)

\* the angle of the vector (x, y), x >= 0 and y >= 0, in microradians; small vectors
\* are scaled up first so that the shifts keep their precision
AtanPos(y, x) ==
    LET m == IF x > y THEN x ELSE y
        k == IF m < 2^10 THEN 2^14 ELSE IF m < 2^16 THEN 2^8
             ELSE IF m < 2^22 THEN 2^2 ELSE 1
    IN  Cordic(x * k, y * k, 0, 1)

\* np.arccos of a cosine c in [-1, 1] (units of 1e-4), in milliradians
ArcCos(c) ==
    LET y == ISqrt(LabScale * LabScale - c * c)
    IN  IF c >= 0 THEN AtanPos(y, c) \div 1000
        ELSE (PiE7 \div 10 - AtanPos(y, -c)) \div 1000

\* np.degrees(np.arctan(num / den)), den # 0, in centi-degrees
ArcTanDegrees(num, den) ==
    LET mag == (AtanPos(Abs(num), Abs(den)) * 180) \div 31416
    IN  IF (num >= 0) = (den > 0) THEN mag ELSE -mag

(***************************************************************************)
(* Landmarks.  A landmark sequence is a sequence of points <<x, y>> in  *)
(* deci-pixels; Python index idx is element idx + 1.                       *)
(***************************************************************************)
\* pts[idx] raises IndexError unless idx < len(pts)
HasIndex(pts, idx) == idx < Len(pts)
At(pts, idx) == pts[idx + 1]

(***************************************************************************)
(* calculate_dimensions                                                    *)
(***************************************************************************)
\* the indices calculate_dimensions reads
DimensionIndices == {108, 338, 234, 454, 58, 288, 10, 152, 172, 397}

\* distance(a, b), deci-pixel pts, in centi-pixels
distance(a, b) ==
    ISqrt(100 * ((a[1] - b[1]) * (a[1] - b[1]) + (a[2] - b[2]) * (a[2] - b[2])))

\* np.clip(cosine, -1.0, 1.0)
Clip(c) == IF c < -LabScale THEN -LabScale ELSE IF c > LabScale THEN LabScale ELSE c

\* jaw_angle: arccos of the clamped cosine at the chin between the two jaw corners.
\* The norms are in centi-pixels and the dot product in deci-pixels^2; the guard
\* 1e-6 decides the quotient only when a norm is zero (the cosine is then 0).
jaw_angle_of(jaw_left, chin, jaw_right) ==
    LET lx == jaw_left[1] - chin[1]
        ly == jaw_left[2] - chin[2]
        rx == jaw_right[1] - chin[1]
        ry == jaw_right[2] - chin[2]
        dot == lx * rx + ly * ry
        norms == ISqrt(100 * (lx * lx + ly * ly)) * ISqrt(100 * (rx * rx + ry * ry))
        cosine == IF norms = 0 THEN 0 ELSE (dot * 100 * LabScale) \div norms
    IN  ArcCos(Clip(cosine))

\* the first pts[idx] of calculate_dimensions that is out of range raises
calculate_dimensions_raises(pts) ==
    \E idx \in DimensionIndices : ~HasIndex(pts, idx)

calculate_dimensions(pts) ==
    [forehead_width |-> distance(At(pts, 108), At(pts, 338)),
     cheekbone_width |-> distance(At(pts, 234), At(pts, 454)),
     jaw_width |-> distance(At(pts, 58), At(pts, 288)),
     face_length |-> distance(At(pts, 10), At(pts, 152)),
     jaw_angle |-> jaw_angle_of(At(pts, 172), At(pts, 152), At(pts, 397))]

(***************************************************************************)
(* rgb_to_lab and analyze_skin_tone.  An image is a function from pixel  *)
(* positions <<x, y>> to <<r, g, b>> with channels in 0 .. 255.            *)
(***************************************************************************)
\* gamma_correct: linear below 0.04045, power law 2.4 above
gamma_correct(channel) ==
    IF channel * 10 <= 4045 THEN (channel * 100) \div 1292
    ELSE Pow2_4(((channel + 550) * 1000) \div 1055)

\* f: cube root above 0.008856, linear below
lab_f(component) ==
    IF component * 100 > 8856 THEN Root3(component)
    ELSE (7787 * component) \div 1000 + (16 * LabScale) \div 116

\* rgb: the three channels in [0, 1]; the result is <<L, a, b>>
rgb_to_lab(rgb) ==
    LET r == gamma_correct(rgb[1])
        g == gamma_correct(rgb[2])
        b == gamma_correct(rgb[3])
        x == (((4124 * r + 3576 * g + 1805 * b) \div LabScale) * 100000) \div 95047
        y == (2126 * r + 7152 * g + 722 * b) \div LabScale
        z == (((193 * r + 1192 * g + 9505 * b) \div LabScale) * 100000) \div 108883
        fx == lab_f(x)
        fy == lab_f(y)
        fz == lab_f(z)
    IN  <<116 * fy - 16 * LabScale, 500 * (fx - fy), 200 * (fy - fz)>>

\* variant: the arctangent taken of b / (L - 50), the quotient upside down
ita_of_lab_swapped(lab) ==
    ArcTanDegrees(lab[3] * 100, (lab[1] - 50 * LabScale) * 100 + EPS)

\* ita = degrees(arctan((L - 50) / (b + 1e-6))), in centi-degrees
ita_of_lab(lab) ==
    ArcTanDegrees((lab[1] - 50 * LabScale) * 100, lab[3] * 100 + EPS)

cheek_indices == <<93, 227, 137, 177>>

\* astype(np.int32): a deci-pixel coordinate truncated toward zero to whole pixels
TruncPx(v) == IF v >= 0 THEN v \div 10 ELSE -((-v) \div 10)

Cross(o, a, b) == (a[1] - o[1]) * (b[2] - o[2]) - (a[2] - o[2]) * (b[1] - o[1])

Min2(a, b) == IF a < b THEN a ELSE b
Max2(a, b) == IF a > b THEN a ELSE b

\* q lies in the closed triangle a b c (a segment or a point when it is degenerate)
InTriangle(q, a, b, c) ==
    LET d1 == Cross(a, b, q)
        d2 == Cross(b, c, q)
        d3 == Cross(c, a, q)
    IN  /\ Min2(a[1], Min2(b[1], c[1])) <= q[1] /\ q[1] <= Max2(a[1], Max2(b[1], c[1]))
        /\ Min2(a[2], Min2(b[2], c[2])) <= q[2] /\ q[2] <= Max2(a[2], Max2(b[2], c[2]))
        /\ \/ d1 >= 0 /\ d2 >= 0 /\ d3 >= 0
           \/ d1 <= 0 /\ d2 <= 0 /\ d3 <= 0

\* cv2.fillConvexPoly(mask, poly, 255) followed by mask == 255: the pixels of the
\* image inside or on the boundary of the convex polygon of the four vertices
fillConvexPoly(pixelSet, poly) ==
    {q \in pixelSet :
        \E i, j, k \in 1..4 : i < j /\ j < k /\ InTriangle(q, poly[i], poly[j], poly[k])}

RECURSIVE SumChannel(_, _, _)
SumChannel(img, pixels, ch) ==
    IF pixels = {} THEN 0
    ELSE LET q == CHOOSE q \in pixels : TRUE
         IN  img[q][ch] + SumChannel(img, pixels \ {q}, ch)

\* the positions selected by image[mask == 255]
cheek_mask(img, pts) ==
    fillConvexPoly(DOMAIN img,
        [i \in 1..4 |-> <<TruncPx(At(pts, cheek_indices[i])[1]),
                          TruncPx(At(pts, cheek_indices[i])[2])>>])

\* np.mean(pixels, axis=0), kept as the channel sums and the pixel count
avg_rgb_of(img, pixels) ==
    [sum |-> [ch \in 1..3 |-> SumChannel(img, pixels, ch)], n |-> Cardinality(pixels)]

\* avg_rgb / 255.0: the channels in [0, 1]
normalized(avg) == [ch \in 1..3 |-> (avg.sum[ch] * LabScale) \div (avg.n * 255)]

NoSkinTone == [error |-> "none", tone |-> "unset", undertone |-> "unset", sample_rgb |-> <<0, 0, 0>>]

\* mutant: the empty-sample check is missing and the mean of no pixels is taken as black
analyze_skin_tone_unchecked(img, pts) ==
    IF \E i \in 1..4 : ~HasIndex(pts, cheek_indices[i])
    THEN [NoSkinTone EXCEPT !.error = "IndexError"]
    ELSE LET pixels == cheek_mask(img, pts)
             lab == rgb_to_lab(<<0, 0, 0>>)
         IN  IF pixels = {}
             THEN [error |-> "none", tone |-> tone_of_ita(ita_of_lab(lab)),
                   undertone |-> undertone_of_lab(lab), sample_rgb |-> <<0, 0, 0>>]
             ELSE LET avg == avg_rgb_of(img, pixels)
                      lab2 == rgb_to_lab(normalized(avg))
                  IN  [error |-> "none",
                       tone |-> tone_of_ita(ita_of_lab(lab2)),
                       undertone |-> undertone_of_lab(lab2),
                       sample_rgb |-> [ch \in 1..3 |-> avg.sum[ch] \div avg.n]]

analyze_skin_tone(img, pts) ==
    IF \E i \in 1..4 : ~HasIndex(pts, cheek_indices[i])
    THEN [NoSkinTone EXCEPT !.error = "IndexError"]
    ELSE LET pixels == cheek_mask(img, pts)
         IN  IF pixels = {}
             THEN [NoSkinTone EXCEPT
                      !.error = "ValueError: Insufficient data for skin tone analysis. Try again."]
             ELSE LET avg == avg_rgb_of(img, pixels)
                      lab == rgb_to_lab(normalized(avg))
                  IN  [error |-> "none",
                       tone |-> tone_of_ita(ita_of_lab(lab)),
                       undertone |-> undertone_of_lab(lab),
                       sample_rgb |-> [ch \in 1..3 |-> avg.sum[ch] \div avg.n]]

(***************************************************************************)
(* generate_overlay.  The bounding box is in deci-pixels, like the         *)
(* landmarks; zone points are in units of 1e-6 deci-pixel (ZoneScale),  *)
(* in which the hundredths of the shape table times a cosine of 1e-4 are   *)
(* whole.                                                                  *)
(***************************************************************************)
ZoneScale == 10^6

\* xs, ys = zip(*points): the set of the values of coordinate c (1: x, 2: y)
Coords(pts, c) == {pts[i][c] : i \in 1..Len(pts)}

\* min(xs), max(xs)
MinOf(S) == CHOOSE v \in S : \A w \in S : v <= w
MaxOf(S) == CHOOSE v \in S : \A w \in S : v >= w

\* mutant: the box is built as (min_x, max_x, min_y, max_y)
bounding_box_of_swapped(pts) ==
    <<MinOf(Coords(pts, 1)), MaxOf(Coords(pts, 1)),
      MinOf(Coords(pts, 2)), MaxOf(Coords(pts, 2))>>

\* xs, ys = zip(*pts); (min(xs), min(ys), max(xs), max(ys))
bounding_box_of(pts) ==
    <<MinOf(Coords(pts, 1)), MinOf(Coords(pts, 2)),
      MaxOf(Coords(pts, 1)), MaxOf(Coords(pts, 2))>>

\* make_zone, the factors in hundredths
make_zone(box, factor_y, height, inset) ==
    LET w == box[3] - box[1]
        h == box[4] - box[2]
        x1 == box[1] * ZoneScale + w * inset * 10^4
        x2 == box[3] * ZoneScale - w * inset * 10^4
        top == box[2] * ZoneScale + h * factor_y * 10^4
        bottom == top + h * height * 10^4
    IN  <<<<x1, bottom>>, <<x1 + w * 5 * 10^4, top>>, <<x2 - w * 5 * 10^4, top>>,
          <<x2, bottom>>>>

\* np.cos(np.radians(degree)) for degree = 0, 30, ..., 330, in units of 1e-4
CosTable == <<10000, 8660, 5000, 0, -5000, -8660, -10000, -8660, -5000, 0, 5000, 8660>>

Cos30(k) == CosTable[(k % 12) + 1]
Sin30(k) == CosTable[((k + 9) % 12) + 1]

\* mutant: the loop steps by 45 degrees, range(0, 360, 45), and yields 8 points
ellipse_step_45(box, center_y_factor, width_factor, height_factor) ==
    LET w == box[3] - box[1]
        h == box[4] - box[2]
        center_x == (box[1] + box[3]) * (ZoneScale \div 2)
        center_y == box[2] * ZoneScale + h * center_y_factor * 10^4
        cos45 == <<10000, 7071, 0, -7071, -10000, -7071, 0, 7071>>
    IN  [k \in 1..8 |->
            <<center_x + (cos45[k] * w * width_factor) \div 2,
              center_y + (cos45[((k + 5) % 8) + 1] * h * height_factor) \div 2>>]

\* ellipse, the factors in hundredths: one point per step of range(0, 360, 30)
ellipse(box, center_y_factor, width_factor, height_factor) ==
    LET w == box[3] - box[1]
        h == box[4] - box[2]
        center_x == (box[1] + box[3]) * (ZoneScale \div 2)
        center_y == box[2] * ZoneScale + h * center_y_factor * 10^4
    IN  [k \in 1..12 |->
            <<center_x + (Cos30(k - 1) * w * width_factor) \div 2,
              center_y + (Sin30(k - 1) * h * height_factor) \div 2>>]

\* mutant: diamond has a branch of its own and the final else holds the oval zones
ShapeParams_else_oval(shape_name) ==
    CASE shape_name = "round" -> <<<<35, 40, 15>>, <<55, 35, 25>>, <<40, 20, 20>>>>
      [] shape_name = "oval" -> <<<<30, 40, 18>>, <<60, 30, 20>>, <<38, 20, 18>>>>
      [] shape_name = "square" -> <<<<30, 50, 10>>, <<58, 32, 18>>, <<38, 22, 18>>>>
      [] shape_name = "heart" -> <<<<25, 45, 12>>, <<55, 28, 18>>, <<35, 20, 20>>>>
      [] shape_name = "oblong" -> <<<<25, 50, 18>>, <<60, 28, 18>>, <<42, 22, 18>>>>
      [] shape_name = "diamond" -> <<<<28, 45, 10>>, <<55, 32, 20>>, <<36, 20, 18>>>>
      [] OTHER -> <<<<30, 40, 18>>, <<60, 30, 20>>, <<38, 20, 18>>>>

\* the if / elif chain on shape: (contour, blush, highlight) parameters in hundredths
ShapeParams(shape_name) ==
    CASE shape_name = "round" -> <<<<35, 40, 15>>, <<55, 35, 25>>, <<40, 20, 20>>>>
      [] shape_name = "oval" -> <<<<30, 40, 18>>, <<60, 30, 20>>, <<38, 20, 18>>>>
      [] shape_name = "square" -> <<<<30, 50, 10>>, <<58, 32, 18>>, <<38, 22, 18>>>>
      [] shape_name = "heart" -> <<<<25, 45, 12>>, <<55, 28, 18>>, <<35, 20, 20>>>>
      [] shape_name = "oblong" -> <<<<25, 50, 18>>, <<60, 28, 18>>, <<42, 22, 18>>>>
      [] OTHER -> <<<<28, 45, 10>>, <<55, 32, 20>>, <<36, 20, 18>>>>

NoZones == [contour |-> <<>>, blush |-> <<>>, highlight |-> <<>>]
NoOverlay == [error |-> "none", bounding_box |-> <<0, 0, 0, 0>>, zones |-> NoZones]

\* zip(*pts) of an empty list yields nothing to unpack into xs, ys: ValueError
generate_overlay(shape_name, pts) ==
    IF Len(pts) = 0
    THEN [NoOverlay EXCEPT !.error = "ValueError: not enough values to unpack"]
    ELSE LET box == bounding_box_of(pts)
             prm == ShapeParams(shape_name)
         IN  [error |-> "none",
              bounding_box |-> box,
              zones |-> [contour |-> make_zone(box, prm[1][1], prm[1][2], prm[1][3]),
                         blush |-> ellipse(box, prm[2][1], prm[2][2], prm[2][3]),
                         highlight |-> ellipse(box, prm[3][1], prm[3][2], prm[3][3])]]

(***************************************************************************)
(* build_recommendations.  A Python dict is a function on its keys;        *)
(* d.get(key, default) is DictGet.                                         *)
(***************************************************************************)
DictGet(d, key, default) == IF key \in DOMAIN d THEN d[key] ELSE default

palettes ==
    [warm |-> [blush |-> <<"Peach", "Apricot", "Warm coral">>,
               eyes |-> <<"Bronze", "Warm taupe", "Olive green">>,
               lips |-> <<"Terracotta", "Warm nude", "Rust red">>],
     cool |-> [blush |-> <<"Rose", "Soft berry", "Cool pink">>,
               eyes |-> <<"Plum", "Soft grey", "Slate blue">>,
               lips |-> <<"Berry", "Cool mauve", "Blue-based red">>],
     neutral |-> [blush |-> <<"Dusty rose", "Neutral coral", "Soft mauve">>,
                  eyes |-> <<"Champagne", "Neutral brown", "Soft copper">>,
                  lips |-> <<"Rosewood", "Balanced nude", "Classic red">>]]

\* palettes.get(undertone, palettes["neutral"])[category]
shade_palette(undertone_name, category) ==
    DictGet(palettes, undertone_name, palettes["neutral"])[category]

shape_guidance ==
    [round |->
        [blush |-> "Sweep blush above the apples and pull back toward temples.",
         contour |-> "Contour beneath cheekbones and jawline for definition.",
         highlight |-> "Highlight center of forehead, nose bridge, and chin."],
     oval |->
        [blush |-> "Apply to apples and blend outward along cheekbones.",
         contour |-> "Light contour under cheekbones and temples.",
         highlight |-> "Highlight cheekbone tops, brow bone, and cupid's bow."],
     square |->
        [blush |-> "Focus on cheek centers and blend softly to diffuse angles.",
         contour |-> "Soften jawline and outer forehead, blending well.",
         highlight |-> "Highlight center of face and cheekbone peaks."],
     heart |->
        [blush |-> "Place blush lower on cheeks and blend upward.",
         contour |-> "Shade sides of forehead and lightly under cheekbones.",
         highlight |-> "Highlight cheekbones and cupid's bow subtly on forehead."],
     oblong |->
        [blush |-> "Apply horizontally across cheeks to add width.",
         contour |-> "Contour forehead top and chin to shorten appearance.",
         highlight |-> "Highlight cheekbones and cupid's bow, skip chin."],
     diamond |->
        [blush |-> "Tap blush on apples and curve outward to soften cheekbones.",
         contour |-> "Contour under cheekbones tapering toward temples.",
         highlight |-> "Highlight forehead center, nose bridge, and chin."]]

contour_finishes == <<"Soft matte stick", "Sheer cream", "Buildable powder">>
highlight_finishes == <<"Cream luminizer", "Soft pearl powder", "Liquid glow">>

\* the dict returned, given the guidance entry `base` of the shape
recommendations_of(base, undertone_name) ==
    [blush |-> [details |-> base["blush"],
                suggested_shades |-> shade_palette(undertone_name, "blush")],
     contour |-> [details |-> base["contour"],
                  suggested_finishes |-> contour_finishes],
     highlight |-> [details |-> base["highlight"],
                    suggested_finishes |-> highlight_finishes],
     eyes |-> [details |->
                  "Choose shades that complement your undertone and layer from matte to shimmer.",
               suggested_shades |-> shade_palette(undertone_name, "eyes")],
     lips |-> [details |->
                  "Match lip families to undertone; adjust intensity for day or night looks.",
               suggested_shades |-> shade_palette(undertone_name, "lips")]]

\* mutant: base = shape_guidance[shape], a KeyError for a shape that is not a key
build_recommendations_subscript(shape_name, undertone_name) ==
    IF shape_name \in DOMAIN shape_guidance
    THEN [error |-> "none",
          value |-> recommendations_of(shape_guidance[shape_name], undertone_name)]
    ELSE [error |-> "KeyError", value |-> <<>>]

\* no step of the function can raise: both lookups are .get with a default
build_recommendations(shape_name, undertone_name) ==
    [error |-> "none",
     value |-> recommendations_of(
                   DictGet(shape_guidance, shape_name, shape_guidance["oval"]),
                   undertone_name)]

(***************************************************************************)
(* compute_symmetry.  The box centre halves a sum of deci-pixels, so the   *)
(* points are held in half deci-pixels; distances are in tenths of that    *)
(* unit, scores in units of 1e-4, the eye angle in centi-degrees.          *)
(***************************************************************************)
Doubled(q) == <<2 * q[1], 2 * q[2]>>

\* point(idx) or fallback: the landmark when the index exists, else the fallback
point_or(pts, idx, fallback) ==
    IF HasIndex(pts, idx) THEN Doubled(At(pts, idx)) ELSE fallback

\* the squared length of a - b
squared_norm(a, b) == (a[1] - b[1]) * (a[1] - b[1]) + (a[2] - b[2]) * (a[2] - b[2])

\* np.linalg.norm(np.array(a) - np.array(b)), in tenths of a half deci-pixel
norm_of(a, b) == ISqrt(squared_norm(a, b) * 100)

\* abs(left - right) / max(left, right, 1e-6): with both distances zero the
\* denominator is the 1e-6 and the quotient zero
balance_delta_of(left_dist, right_dist) ==
    IF Max2(left_dist, right_dist) = 0 THEN 0
    ELSE (Abs(left_dist - right_dist) * LabScale) \div Max2(left_dist, right_dist)

\* mutant: the difference is divided by the smaller distance and the quotient is not
\* clamped to [0, 1]
symmetry_score_of_unclamped(left_dist, right_dist) ==
    IF Min2(left_dist, right_dist) = 0
    THEN IF left_dist = right_dist THEN LabScale ELSE -LabScale
    ELSE LabScale
            - (Abs(left_dist - right_dist) * LabScale) \div Min2(left_dist, right_dist)

\* max(0.0, 1.0 - min(1.0, balance_delta))
symmetry_score_of(left_dist, right_dist) ==
    Max2(0, LabScale - Min2(LabScale, balance_delta_of(left_dist, right_dist)))

symmetry_description(score) ==
    IF score >= 9000
    THEN "Highly balanced proportions across both sides of the face."
    ELSE IF score >= 7500
    THEN "Soft asymmetric accents add character and are easy to balance."
    ELSE "Cheek widths vary more noticeably; thoughtful contour can even things out."

symmetry_guidance(score) ==
    IF score >= 8500
    THEN "Mirror highlight and blush placement to emphasize your natural balance."
    ELSE IF score >= 6500
    THEN "Concentrate highlight on the higher cheekbone and blend contour upward on the fuller side."
    ELSE "Use diagonal blush placement and tapered contour strokes to visually lift the softer side."

\* degrees(arctan2(eye_delta, width)), eye_delta >= 0 and width = max(.., 1e-6) > 0:
\* over a box without width the angle is 0 for level eyes and 90 otherwise
eye_alignment_of(eye_delta, width) ==
    IF width <= 0 THEN (IF eye_delta = 0 THEN 0 ELSE 9000)
    ELSE ArcTanDegrees(eye_delta, width)

compute_symmetry(pts, box) ==
    LET mid_y == box[2] + box[4]
        nose == point_or(pts, 1, <<box[1] + box[3], mid_y>>)
        left_cheek == point_or(pts, 234, <<2 * box[1], mid_y>>)
        right_cheek == point_or(pts, 454, <<2 * box[3], mid_y>>)
        left_dist == norm_of(left_cheek, nose)
        right_dist == norm_of(right_cheek, nose)
        score == symmetry_score_of(left_dist, right_dist)
        left_eye == point_or(pts, 159, <<2 * box[1], nose[2]>>)
        right_eye == point_or(pts, 386, <<2 * box[3], nose[2]>>)
    IN  [score |-> score,
         description |-> symmetry_description(score),
         guidance |-> symmetry_guidance(score),
         eye_delta |-> eye_alignment_of(Abs(left_eye[2] - right_eye[2]),
                                        2 * (box[3] - box[1]))]

(***************************************************************************)
(* The other insights: brow balance, jaw definition, feature ratios and    *)
(* the tone summary.  Scores and ratios are in units of 1e-4.              *)
(***************************************************************************)
\* mutant: the quotient is not multiplied by 3
compute_brow_balance_unscaled(pts, height) ==
    IF ~HasIndex(pts, 70) \/ ~HasIndex(pts, 300) THEN 8000
    ELSE LET gap == Abs(At(pts, 70)[2] - At(pts, 300)[2])
         IN  IF height <= 0 THEN (IF gap = 0 THEN LabScale ELSE 0)
             ELSE Max2(0, LabScale - Min2(LabScale, (gap * LabScale) \div height))

\* height is max(max_y - min_y, 1e-6): over a box without height the quotient is
\* zero for level brows and beyond 1 otherwise
compute_brow_balance(pts, height) ==
    IF ~HasIndex(pts, 70) \/ ~HasIndex(pts, 300) THEN 8000
    ELSE LET gap == Abs(At(pts, 70)[2] - At(pts, 300)[2])
         IN  IF height <= 0 THEN (IF gap = 0 THEN LabScale ELSE 0)
             ELSE Max2(0, LabScale - Min2(LabScale, (gap * 3 * LabScale) \div height))

\* np.radians(25) in microradians
Radians25 == 436332

\* jaw_angle in milliradians; the quotient is clamped to [0, 1] before it is scaled
compute_jaw_definition(d) ==
    LET angle == d.jaw_angle * 1000
        normalized_angle ==
            IF angle <= Radians25 THEN 0
            ELSE IF angle >= 2 * Radians25 THEN LabScale
            ELSE ((angle - Radians25) * 1000) \div (Radians25 \div 10)
    IN  LabScale - Abs(normalized_angle - LabScale \div 2)

\* what stands for a quotient by the 1e-6 guard, which is beyond the range of the
\* ratios held here and above every threshold
RatioCap == 10^9

\* num / max(den, 1e-6) of two non-negative lengths
guarded_ratio(num, den) ==
    IF den > 0 THEN (num * LabScale) \div den
    ELSE IF num = 0 THEN 0 ELSE RatioCap

\* mutant: the first message is chosen by the size of delta, whatever its sign
add_ratio_symmetric(name, value, ideal, high, above, balanced, otherwise) ==
    LET delta == value - ideal
    IN  [name |-> name, value |-> value, ideal |-> ideal, delta |-> delta,
         message |-> IF Abs(delta) > high THEN above
                     ELSE IF Abs(delta) < 500 THEN balanced ELSE otherwise]

\* add_ratio: the entry appended for a ratio, its ideal and its three messages
add_ratio(name, value, ideal, high, above, balanced, otherwise) ==
    LET delta == value - ideal
    IN  [name |-> name, value |-> value, ideal |-> ideal, delta |-> delta,
         message |-> IF delta > high THEN above
                     ELSE IF Abs(delta) < 500 THEN balanced ELSE otherwise]

build_feature_ratios(d) ==
    <<add_ratio("Face length vs. width",
                guarded_ratio(d.face_length, d.cheekbone_width), 13300, 1500,
                "Elongated", "Balanced", "Softly wider"),
      add_ratio("Forehead vs. jaw width",
                guarded_ratio(d.forehead_width, d.jaw_width), 10000, 1000,
                "Stronger forehead", "Even width", "Defined jaw"),
      add_ratio("Cheekbone vs. jaw width",
                guarded_ratio(d.cheekbone_width, d.jaw_width), 10500, 1000,
                "Pronounced cheekbones", "Balanced", "Softer cheeks")>>

HexDigits == <<"0", "1", "2", "3", "4", "5", "6", "7", "8", "9", "A", "B", "C", "D", "E", "F">>

\* "{:02X}" of a channel value in 0 .. 255
hex_byte(v) == <<HexDigits[(v \div 16) + 1], HexDigits[(v % 16) + 1]>>

undertone_keywords ==
    [warm |-> <<"Golden", "Sunlit", "Honey">>,
     cool |-> <<"Rosy", "Berry", "Icy">>,
     neutral |-> <<"Balanced", "Adaptive", "Versatile">>]

finish_tips ==
    [warm |-> <<"Lean toward softly glazed or dewy finishes to amplify warmth.",
                "Use bronze or caramel contour shades for seamless blending.">>,
     cool |-> <<"Pearl or opal highlights complement cooler undertones.",
                "Cool mauve or berry lip finishes add balance.">>,
     neutral |-> <<"You can mix warm and cool blushes to shift the look effortlessly.",
                   "Try satin finishes for contour to maintain flexibility.">>]

\* hex is the string "#RRGGBB", held as the sequence of its characters
build_tone_summary(tone, undertone_name, rgb) ==
    [hex |-> <<"#">> \o hex_byte(rgb[1]) \o hex_byte(rgb[2]) \o hex_byte(rgb[3]),
     keywords |-> DictGet(undertone_keywords, undertone_name, undertone_keywords["neutral"]),
     finish_tips |-> DictGet(finish_tips, undertone_name, finish_tips["neutral"])]

\* skin is the (tone, undertone, sample_rgb) of analyze_skin_tone
build_insights(pts, box, d, skin, face_shape) ==
    LET symmetry == compute_symmetry(pts, box)
    IN  [symmetry_score |-> symmetry.score,
         symmetry_description |-> symmetry.description,
         eye_alignment_difference |-> symmetry.eye_delta,
         guidance |-> symmetry.guidance,
         brow_balance_score |-> compute_brow_balance(pts, box[4] - box[2]),
         jaw_definition_score |-> compute_jaw_definition(d),
         feature_ratios |-> build_feature_ratios(d),
         tone_summary |-> build_tone_summary(skin.tone, skin.undertone, skin.sample_rgb),
         face_shape |-> face_shape]

(***************************************************************************)
(* analyze_image: the pipeline from the detector's landmarks to the        *)
(* response.  An exception raised by a step ends the call; the response    *)
(* record then carries it in `error` and no results.                       *)
(***************************************************************************)
NoFaceDetected == "ValueError: No face detected. Please retake the selfie with better lighting."

NoDimensions ==
    [forehead_width |-> 0, cheekbone_width |-> 0, jaw_width |-> 0,
     face_length |-> 0, jaw_angle |-> 0]

NoRecommendations ==
    [c \in {"blush", "contour", "highlight", "eyes", "lips"} |-> [details |-> "unset"]]

NoInsights ==
    [symmetry_score |-> 0, symmetry_description |-> "unset",
     eye_alignment_difference |-> 0, guidance |-> "unset", brow_balance_score |-> 0,
     jaw_definition_score |-> 0, feature_ratios |-> <<>>,
     tone_summary |-> [hex |-> <<>>, keywords |-> <<>>, finish_tips |-> <<>>],
     face_shape |-> "unset"]

NoResponse ==
    [error |-> "none", dimensions |-> NoDimensions, face_shape |-> "unset",
     skin_tone |-> "unset", undertone |-> "unset", skin_sample_rgb |-> <<0, 0, 0>>,
     overlay |-> [bounding_box |-> <<0, 0, 0, 0>>, zones |-> NoZones],
     recommendations |-> NoRecommendations, insights |-> NoInsights]

Raised(e) == [NoResponse EXCEPT !.error = e]

\* mutant: the cheek polygon is jittered by a pixel on every second invocation
analyze_image_jittered(img, found, pts) ==
    IF ~found THEN Raised(NoFaceDetected)
    ELSE IF calculate_dimensions_raises(pts) THEN Raised("IndexError")
    ELSE LET dims == calculate_dimensions(pts)
             shp == classify_face(dims)
             skin == analyze_skin_tone(img,
                         [i \in DOMAIN pts |->
                             <<pts[i][1] + 10 * (analysis_calls % 2), pts[i][2]>>])
             overlay == generate_overlay(shp, pts)
         IN  IF skin.error # "none" THEN Raised(skin.error)
             ELSE IF overlay.error # "none" THEN Raised(overlay.error)
             ELSE [error |-> "none", dimensions |-> dims, face_shape |-> shp,
                   skin_tone |-> skin.tone, undertone |-> skin.undertone,
                   skin_sample_rgb |-> skin.sample_rgb,
                   overlay |-> [bounding_box |-> overlay.bounding_box,
                                zones |-> overlay.zones],
                   recommendations |-> build_recommendations(shp, skin.undertone).value,
                   insights |-> build_insights(pts, overlay.bounding_box, dims, skin, shp)]

\* every step reads only its arguments: the module keeps no state between calls (the
\* FaceMesh object is built and closed inside the call) and draws on no clock and no
\* random source
analyze_image(img, found, pts) ==
    IF ~found THEN Raised(NoFaceDetected)
    ELSE IF calculate_dimensions_raises(pts) THEN Raised("IndexError")
    ELSE LET dims == calculate_dimensions(pts)
             shp == classify_face(dims)
             skin == analyze_skin_tone(img, pts)
             overlay == generate_overlay(shp, pts)
         IN  IF skin.error # "none" THEN Raised(skin.error)
             ELSE IF overlay.error # "none" THEN Raised(overlay.error)
             ELSE [error |-> "none", dimensions |-> dims, face_shape |-> shp,
                   skin_tone |-> skin.tone, undertone |-> skin.undertone,
                   skin_sample_rgb |-> skin.sample_rgb,
                   overlay |-> [bounding_box |-> overlay.bounding_box,
                                zones |-> overlay.zones],
                   recommendations |-> build_recommendations(shp, skin.undertone).value,
                   insights |-> build_insights(pts, overlay.bounding_box, dims, skin, shp)]

(***************************************************************************)
(* The variables of a component that a specification does not exercise     *)
(* keep these values.                                                      *)
(***************************************************************************)
NoToneCall == [called |-> FALSE, ita |-> 0, tone |-> "unset"]
NoUndertoneCall == [called |-> FALSE, lab |-> <<0, 0, 0>>, undertone |-> "unset"]
NoOverlayCall == [called |-> FALSE, error |-> "none", bounding_box |-> <<0, 0, 0, 0>>, zones |-> NoZones]

\* Python's None
PyNone == "<None>"

NoApiRequest == [image_base64 |-> <<>>, store_history |-> FALSE, notes |-> PyNone]
NoApiResponse ==
    [status |-> 0, detail |-> "", result |-> NoResponse, history_id |-> PyNone,
     created_at |-> PyNone]

NoLoginRequest == [email |-> <<>>, password |-> "", remember_me |-> FALSE]
NoLoginResponse ==
    [status |-> 0, detail |-> "", access_token |-> PyNone, expires_in |-> 0,
     expires_at |-> 0]

NoSymmetryCall ==
    [called |-> FALSE, score |-> 0, description |-> "unset", guidance |-> "unset",
     eye_delta |-> 0]
NoRecCall == [called |-> FALSE, shape |-> "unset", undertone |-> "unset", error |-> "none", result |-> <<>>]

ClassifyIdle == dimensions = NoDimensions /\ shape = "unset" /\ stage = "idle"
ToneIdle == tone_call = NoToneCall /\ prev_tone_call = NoToneCall
UndertoneIdle == undertone_call = NoUndertoneCall
OverlayIdle ==
    overlay_shape = "unset" /\ overlay_points = <<>> /\ overlay_result = NoOverlayCall
AnalysisIdle ==
    /\ np_image = <<>> /\ face_found = FALSE /\ points = <<>>
    /\ response = NoResponse /\ analysis_stage = "idle"
    /\ analysis_calls = 0 /\ report_log = {}

RecommendIdle == rec_call = NoRecCall /\ prev_rec_call = NoRecCall

SymmetryIdle == sym_points = <<>> /\ sym_box = <<0, 0, 0, 0>> /\ sym_result = NoSymmetryCall

BrowserIdle ==
    /\ api_request = NoApiRequest /\ api_response = NoApiResponse
    /\ history_store = <<>> /\ at_entry = [history |-> <<>>, calls |-> 0]

ClockIdle == now = 0

\* the dict with no key
EmptyDict == [k \in {} |-> 0]

AuthIdle ==
    /\ login_request = NoLoginRequest /\ login_response = NoLoginResponse
    /\ token_store = EmptyDict /\ auth_entry = [store |-> EmptyDict, now |-> 0]

NoInsightCall == [op |-> "none", pts |-> <<>>, height |-> 0, dims |-> NoDimensions, result |-> 0]
InsightIdle == insight_call = NoInsightCall

\* no token
NoToken == <<"token", 0>>

NoSessionCall ==
    [op |-> "none", arg |-> <<>>, code |-> "", raised |-> "none", status |-> 0,
     token |-> NoToken, ttl |-> 0, expires_at |-> 0, user |-> PyNone, result |-> FALSE]

\* issued: every token a login returned, with its expiry; revoked: the tokens handed
\* to revoke; rejected: the tokens for which validate returned False; requested: the
\* challenge returned by the latest successful request_otp (<<>> before the first);
\* consumed: a verify_otp has succeeded since that request; failed: a verify_otp has
\* failed since that request
NoSessionGhost ==
    [issued |-> EmptyDict, revoked |-> {}, rejected |-> {},
     requested |-> [phone_number |-> <<>>, code |-> "", expires_at |-> 0],
     consumed |-> FALSE, failed |-> FALSE, calls |-> 0]
NoSessionEntry ==
    [tokens |-> EmptyDict, otp |-> EmptyDict, now |-> 0, ghost |-> NoSessionGhost]
SessionIdle ==
    /\ otp_store = EmptyDict /\ session_call = NoSessionCall
    /\ session_entry = NoSessionEntry /\ session_ghost = NoSessionGhost

RaceIdle == workers = <<>> /\ lock_owner = 0 /\ serial_store = <<>>

NoHistoryCall == [op |-> "none", record_id |-> PyNone, result |-> PyNone, status |-> 0]
HistoryCallIdle == history_call = NoHistoryCall

ExtraIdle == InsightIdle /\ SessionIdle /\ RaceIdle /\ HistoryCallIdle

ServicesIdle ==
    RecommendIdle /\ SymmetryIdle /\ BrowserIdle /\ ClockIdle /\ AuthIdle /\ ExtraIdle

(***************************************************************************)
(* Specification SpecClassify: classify_face applied to a FaceDimensions   *)
(* record drawn from the valid domain (non-negative fields, jaw_angle in   *)
(* [0, pi]).                                                               *)
(***************************************************************************)
\* widths in centi-px: 0, the 6 px grid 114 .. 138 px, and 130, 150 px
WidthSet == {0, 13000, 15000} \cup {11400 + 600 * k : k \in 0..MaxWidthStep}

\* lengths in centi-px: 0, the 6 px grid 120 .. 168 px, and 200 px
LengthSet == {0, 20000} \cup {12000 + 600 * k : k \in 0..MaxLengthStep}

\* jaw angles in mrad: 0, both sides of pi/3.5 (897.6) and pi/3.4 (924.0), 1.5 rad, pi
AngleSet == {0, 897, 898, 923, 924, 1500, 3141}

DimensionsSet ==
    [forehead_width : WidthSet, cheekbone_width : WidthSet, jaw_width : WidthSet,
     face_length : LengthSet, jaw_angle : AngleSet]

InitClassify ==
    /\ dimensions \in DimensionsSet
    /\ shape = "unset"
    /\ stage = "input"
    /\ ToneIdle /\ UndertoneIdle /\ OverlayIdle /\ AnalysisIdle /\ ServicesIdle

ClassifyFace ==
    /\ stage = "input"
    /\ shape' = classify_face(dimensions)
    /\ stage' = "done"
    /\ UNCHANGED <<dimensions, toneVars, undertoneVars, overlayVars, analysisVars,
                   serviceVars>>

NextClassify == ClassifyFace

SpecClassify == InitClassify /\ [][NextClassify]_vars

(***************************************************************************)
(* Claims about classify_face (checked under SpecClassify).                *)
(***************************************************************************)
\* C1: for every FaceDimensions record with non-negative fields and jaw_angle in
\* [0, pi], classify_face returns a value and that value is one of the six shapes
\* round, oval, square, heart, oblong, diamond.
C1_Totality == stage = "done" => shape \in FaceShapes

\* the all-zero record (every denominator is the bare epsilon) is classified
C1_Witness ==
    /\ stage = "done"
    /\ dimensions.forehead_width = 0 /\ dimensions.cheekbone_width = 0
    /\ dimensions.jaw_width = 0 /\ dimensions.face_length = 0
    /\ shape \in FaceShapes

\* C2: whenever length_ratio < 1.05 the result is square if jaw_angle < pi/3.4,
\* otherwise heart if cheek_to_jaw > 1.05, otherwise round; the jaw-angle test comes
\* first and oval, oblong, diamond are never returned in this band.
C2_ShortBand ==
    (stage = "done" /\ length_ratio_lt(dimensions, 105)) =>
        /\ shape = IF AngleLT(dimensions.jaw_angle, 34) THEN "square"
                   ELSE IF cheek_to_jaw_gt(dimensions, 105) THEN "heart"
                   ELSE "round"
        /\ shape \notin {"oval", "oblong", "diamond"}

\* a short face with a sharp jaw and wide cheeks: the jaw-angle test wins
C2_Witness ==
    /\ stage = "done"
    /\ length_ratio_lt(dimensions, 105)
    /\ AngleLT(dimensions.jaw_angle, 34)
    /\ cheek_to_jaw_gt(dimensions, 105)
    /\ shape = "square"

\* the scenario of the specification: forehead 130, cheekbone 150, jaw 120,
\* length 200, jaw_angle 1.5 rad
ScenarioDimensions ==
    [forehead_width |-> 13000, cheekbone_width |-> 15000, jaw_width |-> 12000,
     face_length |-> 20000, jaw_angle |-> 1500]

\* C3: whenever length_ratio >= 1.35 the result is diamond exactly when
\* cheek_to_jaw > 1.1 and forehead_to_jaw < 0.95, and oblong otherwise, whatever the
\* jaw angle; diamond and oblong are returned only for length_ratio >= 1.35; the
\* scenario record (130, 150, 120, 200, 1.5) gives oblong.
C3_LongBand ==
    stage = "done" =>
        /\ ~length_ratio_lt(dimensions, 135) =>
              shape = IF cheek_to_jaw_gt(dimensions, 110) /\ forehead_to_jaw_lt(dimensions, 95)
                      THEN "diamond" ELSE "oblong"
        /\ shape \in {"diamond", "oblong"} => ~length_ratio_lt(dimensions, 135)
        /\ dimensions = ScenarioDimensions => shape = "oblong"

\* the scenario record has been classified: wide cheeks, yet forehead_to_jaw >= 0.95
C3_Witness ==
    /\ stage = "done"
    /\ dimensions = ScenarioDimensions
    /\ ~length_ratio_lt(dimensions, 135)
    /\ cheek_to_jaw_gt(dimensions, 110)
    /\ ~forehead_to_jaw_lt(dimensions, 95)
    /\ shape = "oblong"

\* C4: whenever 1.05 <= length_ratio < 1.35 the tests apply in this order, first
\* match winning: cheek_to_jaw > 1.15 gives heart; else jaw_angle < pi/3.5 gives
\* square; else cheek_to_jaw > 1.05 and forehead_to_jaw > 1.05 gives heart; else oval.
\* A face with cheek_to_jaw > 1.15 is heart even when jaw_angle < pi/3.5, and oval is
\* returned only in this band.
C4_MiddleBand ==
    stage = "done" =>
        /\ (~length_ratio_lt(dimensions, 105) /\ length_ratio_lt(dimensions, 135)) =>
              shape = IF cheek_to_jaw_gt(dimensions, 115) THEN "heart"
                      ELSE IF AngleLT(dimensions.jaw_angle, 35) THEN "square"
                      ELSE IF cheek_to_jaw_gt(dimensions, 105)
                              /\ forehead_to_jaw_gt(dimensions, 105) THEN "heart"
                      ELSE "oval"
        /\ shape = "oval" =>
              (~length_ratio_lt(dimensions, 105) /\ length_ratio_lt(dimensions, 135))

\* a middle-band face with cheek_to_jaw > 1.15 and a jaw angle below pi/3.5 is heart
C4_Witness ==
    /\ stage = "done"
    /\ ~length_ratio_lt(dimensions, 105) /\ length_ratio_lt(dimensions, 135)
    /\ cheek_to_jaw_gt(dimensions, 115)
    /\ AngleLT(dimensions.jaw_angle, 35)
    /\ shape = "heart"

(***************************************************************************)
(* Specification SpecTone: the tone bracket evaluated again and again on   *)
(* ITA values; the state keeps the latest two evaluations.                 *)
(***************************************************************************)
\* ITA values in centi-degrees: the ends of the range of arctan, zero, a negative
\* value, and each threshold with its two neighbours
ItaSet ==
    {-9000, -100, 0, 9000}
        \cup {t * 100 + e : t \in {10, 28, 41, 55}, e \in {-1, 0, 1}}

InitTone ==
    /\ tone_call = NoToneCall
    /\ prev_tone_call = NoToneCall
    /\ ClassifyIdle /\ UndertoneIdle /\ OverlayIdle /\ AnalysisIdle /\ ServicesIdle

ToneOfIta ==
    \E x \in ItaSet :
        /\ prev_tone_call' = tone_call
        /\ tone_call' = [called |-> TRUE, ita |-> x, tone |-> tone_of_ita(x)]
        /\ UNCHANGED <<classifyVars, undertoneVars, overlayVars, analysisVars,
                       serviceVars>>

NextTone == ToneOfIta

SpecTone == InitTone /\ [][NextTone]_vars

(***************************************************************************)
(* Specification SpecUndertone: the undertone of a Lab value.              *)
(***************************************************************************)
\* L: black, mid, white; a and b: each threshold with its neighbours (one unit of
\* 1e-4 away), and values far on either side
LabSet ==
    {<<l * LabScale, a, b>> :
        l \in {0, 50, 100},
        a \in {(-3) * LabScale, (-2) * LabScale - 1, (-2) * LabScale,
               (-2) * LabScale + 1, 0, 12 * LabScale},
        b \in {(-5) * LabScale, 10 * LabScale - 1, 10 * LabScale, 10 * LabScale + 1,
               15 * LabScale - 1, 15 * LabScale, 15 * LabScale + 1, 30 * LabScale}}

InitUndertone ==
    /\ undertone_call = NoUndertoneCall
    /\ ClassifyIdle /\ ToneIdle /\ OverlayIdle /\ AnalysisIdle /\ ServicesIdle

UndertoneOfLab ==
    \E v \in LabSet :
        /\ undertone_call' = [called |-> TRUE, lab |-> v, undertone |-> undertone_of_lab(v)]
        /\ UNCHANGED <<classifyVars, toneVars, overlayVars, analysisVars,
                       serviceVars>>

NextUndertone == UndertoneOfLab

SpecUndertone == InitUndertone /\ [][NextUndertone]_vars

(***************************************************************************)
(* Claims about the tone bracket and the undertone.                        *)
(***************************************************************************)
\* the order deep < tan < medium < light < very_light
ToneRank(t) ==
    CASE t = "deep" -> 0 [] t = "tan" -> 1 [] t = "medium" -> 2
      [] t = "light" -> 3 [] t = "very_light" -> 4 [] OTHER -> -1

\* C7: the tone is a non-decreasing step function of ITA with inclusive lower
\* thresholds 10, 28, 41, 55: of two evaluations the one with the larger ITA never
\* has the darker tone, an ITA equal to a threshold falls in the upper bracket, and
\* every ITA below 10 (negative values too) is deep.
C7_ToneMonotone ==
    tone_call.called =>
        /\ tone_call.tone \in Tones
        /\ (prev_tone_call.called /\ prev_tone_call.ita <= tone_call.ita) =>
              ToneRank(prev_tone_call.tone) <= ToneRank(tone_call.tone)
        /\ (prev_tone_call.called /\ prev_tone_call.ita >= tone_call.ita) =>
              ToneRank(prev_tone_call.tone) >= ToneRank(tone_call.tone)
        /\ tone_call.ita = 5500 => tone_call.tone = "very_light"
        /\ tone_call.ita = 4100 => tone_call.tone = "light"
        /\ tone_call.ita = 2800 => tone_call.tone = "medium"
        /\ tone_call.ita = 1000 => tone_call.tone = "tan"
        /\ tone_call.ita < 1000 <=> tone_call.tone = "deep"
        /\ (1000 <= tone_call.ita /\ tone_call.ita < 2800) <=> tone_call.tone = "tan"
        /\ (2800 <= tone_call.ita /\ tone_call.ita < 4100) <=> tone_call.tone = "medium"
        /\ (4100 <= tone_call.ita /\ tone_call.ita < 5500) <=> tone_call.tone = "light"

\* an ITA just below 28 (tan) followed by an ITA of exactly 28 (medium)
C7_Witness ==
    /\ prev_tone_call.called /\ tone_call.called
    /\ prev_tone_call.ita = 2799 /\ prev_tone_call.tone = "tan"
    /\ tone_call.ita = 2800 /\ tone_call.tone = "medium"

\* C8: for every Lab value the undertone is cool when a < -2 and b < 10, otherwise
\* warm when b > 15, otherwise neutral; the outcomes are exclusive and exhaustive and
\* the result does not depend on L.
C8_Undertone ==
    undertone_call.called =>
        LET a == undertone_call.lab[2]
            b == undertone_call.lab[3]
            u == undertone_call.undertone
        IN  /\ u \in {"cool", "warm", "neutral"}
            /\ u = "cool" <=> (a < -20000 /\ b < 100000)
            /\ u = "warm" <=> (~(a < -20000 /\ b < 100000) /\ b > 150000)
            /\ u = "neutral" <=> (~(a < -20000 /\ b < 100000) /\ ~(b > 150000))

\* a green-shifted, yellow Lab value: a < -2 but b > 15, so the undertone is warm
C8_Witness ==
    /\ undertone_call.called
    /\ undertone_call.lab[2] < -20000
    /\ undertone_call.lab[3] > 150000
    /\ undertone_call.undertone = "warm"

(***************************************************************************)
(* Specification SpecOverlay: generate_overlay applied to a shape argument *)
(* and a landmark sequence of at most MaxPoints points.                    *)
(***************************************************************************)
\* the six shapes and two strings that are none of them
ShapeArguments == FaceShapes \cup {"triangle", "Round"}

\* coordinates in deci-pixels: left of / above the image, its origin, inside it
CoordSet == {-10, 0, 45}

PointSeqs(n) == [1..n -> CoordSet \X CoordSet]

InitOverlay ==
    /\ overlay_shape \in ShapeArguments
    /\ overlay_points \in UNION {PointSeqs(n) : n \in 0..MaxPoints}
    /\ overlay_result = NoOverlayCall
    /\ ClassifyIdle /\ ToneIdle /\ UndertoneIdle /\ AnalysisIdle /\ ServicesIdle

GenerateOverlay ==
    /\ ~overlay_result.called
    /\ overlay_result' =
          LET r == generate_overlay(overlay_shape, overlay_points)
          IN  [called |-> TRUE, error |-> r.error, bounding_box |-> r.bounding_box,
               zones |-> r.zones]
    /\ UNCHANGED <<overlay_shape, overlay_points, classifyVars, toneVars,
                   undertoneVars, analysisVars, serviceVars>>

NextOverlay == GenerateOverlay

SpecOverlay == InitOverlay /\ [][NextOverlay]_vars

(***************************************************************************)
(* Claims about generate_overlay (checked under SpecOverlay).              *)
(***************************************************************************)
\* C10: for every non-empty landmark sequence and every shape argument the
\* bounding_box of generate_overlay is [min_x, min_y, max_x, max_y] with
\* min_x <= max_x and min_y <= max_y, every landmark lies inside it, and for a single
\* landmark it is the box of that point.
C10_BoundingBox ==
    (overlay_result.called /\ Len(overlay_points) >= 1) =>
        LET bb == overlay_result.bounding_box
            idx == 1..Len(overlay_points)
        IN  /\ overlay_result.error = "none"
            /\ bb[1] <= bb[3] /\ bb[2] <= bb[4]
            /\ \A i \in idx :
                  /\ bb[1] <= overlay_points[i][1] /\ overlay_points[i][1] <= bb[3]
                  /\ bb[2] <= overlay_points[i][2] /\ overlay_points[i][2] <= bb[4]
            /\ \E i \in idx : overlay_points[i][1] = bb[1]
            /\ \E i \in idx : overlay_points[i][2] = bb[2]
            /\ \E i \in idx : overlay_points[i][1] = bb[3]
            /\ \E i \in idx : overlay_points[i][2] = bb[4]
            /\ Len(overlay_points) = 1 =>
                  bb = <<overlay_points[1][1], overlay_points[1][2],
                         overlay_points[1][1], overlay_points[1][2]>>

\* three landmarks, none of which is a corner of the box, have been boxed
C10_Witness ==
    /\ overlay_result.called
    /\ overlay_points = <<<<0, 45>>, <<45, 0>>, <<-10, 0>>>>
    /\ overlay_result.bounding_box = <<-10, 0, 45, 45>>

\* C11: for each of the six shapes and any non-empty landmark sequence
\* generate_overlay returns exactly the zones contour, blush and highlight, each a
\* non-empty point list: contour has 4 points, blush and highlight 12 each, one per
\* step of 30 degrees from 0 to 330 around the horizontal centre of the box.
C11_ZoneShapes ==
    (overlay_result.called /\ Len(overlay_points) >= 1 /\ overlay_shape \in FaceShapes) =>
        LET z == overlay_result.zones
            bb == overlay_result.bounding_box
            cx == (bb[1] + bb[3]) * (ZoneScale \div 2)
        IN  /\ overlay_result.error = "none"
            /\ DOMAIN z = {"contour", "blush", "highlight"}
            /\ Len(z.contour) = 4
            /\ Len(z.blush) = 12
            /\ Len(z.highlight) = 12
            /\ \A e \in {z.blush, z.highlight} :
                  \* 0 degrees right of the centre, 180 left of it, 90 below the
                  \* height of the point at 0 degrees, 270 above it
                  /\ e[1][1] >= cx /\ e[7][1] <= cx
                  /\ e[4][2] >= e[1][2] /\ e[10][2] <= e[1][2]

\* a heart-shaped face over a box of 55 x 45 deci-pixels: three zones of 4, 12, 12
C11_Witness ==
    /\ overlay_result.called
    /\ overlay_shape = "heart"
    /\ overlay_result.bounding_box = <<-10, 0, 45, 45>>
    /\ Len(overlay_result.zones.contour) = 4
    /\ Len(overlay_result.zones.blush) = 12
    /\ overlay_result.zones.blush[1][1] > overlay_result.zones.blush[2][1]
    /\ overlay_result.zones.blush[2][1] > overlay_result.zones.blush[3][1]

\* C12: for every shape value other than round, oval, square, heart and oblong (any
\* unrecognised string too) generate_overlay produces the zones it produces for
\* diamond on the same landmarks: contour quad (0.28, 0.45, 0.1), blush ellipse
\* (0.55, 0.32, 0.2), highlight ellipse (0.36, 0.2, 0.18); it never fails on an
\* unknown shape.
C12_UnknownShapeDiamond ==
    (overlay_result.called /\ Len(overlay_points) >= 1
        /\ overlay_shape \notin {"round", "oval", "square", "heart", "oblong"}) =>
        LET box == bounding_box_of(overlay_points)
        IN  /\ overlay_result.error = "none"
            /\ overlay_result.zones = generate_overlay("diamond", overlay_points).zones
            /\ overlay_result.zones.contour = make_zone(box, 28, 45, 10)
            /\ overlay_result.zones.blush = ellipse(box, 55, 32, 20)
            /\ overlay_result.zones.highlight = ellipse(box, 36, 20, 18)

\* an unrecognised shape over a box with an area: the zones are diamond's, and they
\* are not the zones of oval
C12_Witness ==
    /\ overlay_result.called
    /\ overlay_shape = "triangle"
    /\ overlay_result.bounding_box = <<-10, 0, 45, 45>>
    /\ overlay_result.zones = generate_overlay("diamond", overlay_points).zones
    /\ overlay_result.zones # generate_overlay("oval", overlay_points).zones

(***************************************************************************)
(* Specification SpecAnalysis: analyze_image applied to an image of        *)
(* ImageSide x ImageSide pixels and to what the detector returned for it:  *)
(* no face, or one face as a landmark sequence.                            *)
(***************************************************************************)
ImagePixels == (0..(ImageSide - 1)) \X (0..(ImageSide - 1))

\* the images of the model: the scenario colour everywhere; columns alternating
\* between two colours whose mean is the scenario colour; a dark colour; a
\* blue-green colour
ImageSet ==
    {[q \in ImagePixels |-> <<220, 180, 160>>],
     [q \in ImagePixels |-> IF q[1] % 2 = 0 THEN <<198, 160, 120>> ELSE <<242, 200, 200>>],
     [q \in ImagePixels |-> <<90, 60, 50>>],
     [q \in ImagePixels |-> <<120, 180, 190>>]}

\* a face drawn over a 6 x 6 pixel image, in deci-pixels: the landmarks the analysis
\* reads by index, and a scatter inside the face for every other index
BaseLandmark(idx) ==
    CASE idx = 10 -> <<30, 4>>
      [] idx = 152 -> <<30, 56>>
      [] idx = 234 -> <<6, 30>>
      [] idx = 454 -> <<54, 30>>
      [] idx = 108 -> <<18, 10>>
      [] idx = 338 -> <<42, 10>>
      [] idx = 58 -> <<10, 42>>
      [] idx = 288 -> <<50, 42>>
      [] idx = 172 -> <<14, 48>>
      [] idx = 397 -> <<46, 48>>
      [] idx = 1 -> <<30, 32>>
      [] idx = 159 -> <<22, 20>>
      [] idx = 386 -> <<38, 20>>
      [] idx = 70 -> <<20, 14>>
      [] idx = 300 -> <<40, 15>>
      [] OTHER -> <<6 + ((idx * 7) % 49), 4 + ((idx * 11) % 53)>>

\* the four cheek-sampling landmarks: a proper quadrilateral, four collinear points,
\* or four coincident points
CheekLandmark(idx, cheek) ==
    CASE cheek = "quad" ->
            (CASE idx = 93 -> <<11, 25>> [] idx = 227 -> <<24, 25>>
               [] idx = 137 -> <<24, 38>> [] OTHER -> <<11, 38>>)
      [] cheek = "line" ->
            (CASE idx = 93 -> <<11, 25>> [] idx = 227 -> <<24, 25>>
               [] idx = 137 -> <<18, 25>> [] OTHER -> <<15, 25>>)
      [] OTHER -> <<11, 25>>

\* landmark idx of the face with its cheek landmarks laid out as `cheek`, its
\* forehead top at height `top`, and the whole face shifted horizontally by ox
Landmark(idx, cheek, top, ox) ==
    LET q == IF idx \in {93, 227, 137, 177} THEN CheekLandmark(idx, cheek)
             ELSE IF idx = 10 THEN <<30, top>>
             ELSE BaseLandmark(idx)
    IN  <<q[1] + ox, q[2]>>

\* lengths of the landmark sequence: too short for some or all of the indices read,
\* just long enough (455), and the detector's 468 and 478
LandmarkCounts == {1, 11, 109, 178, 454, 455, 468, 478}

\* forehead tops: a long face and a shorter one; shifts: partly left of the image,
\* in place, wholly right of the image
LandmarkSeqs ==
    {[i \in 1..n |-> Landmark(i - 1, cheek, top, ox)] :
        n \in LandmarkCounts, cheek \in {"quad", "line", "point"},
        top \in {4, 16}, ox \in {-15, 0, 100}}

InitAnalysis ==
    /\ np_image \in ImageSet
    /\ \/ face_found = FALSE /\ points = <<>>
       \/ face_found = TRUE /\ points \in LandmarkSeqs
    /\ response = NoResponse
    /\ analysis_stage = "input"
    /\ analysis_calls = 0
    /\ report_log = {}
    /\ ClassifyIdle /\ ToneIdle /\ UndertoneIdle /\ OverlayIdle /\ ServicesIdle

AnalyzeImage ==
    /\ analysis_stage = "input"
    /\ response' = analyze_image(np_image, face_found, points)
    /\ analysis_stage' = "done"
    /\ analysis_calls' = analysis_calls + 1
    /\ report_log' = report_log \cup
          {[np_image |-> np_image, face_found |-> face_found, points |-> points,
            response |-> response']}
    /\ UNCHANGED <<np_image, face_found, points, classifyVars, toneVars,
                   undertoneVars, overlayVars, serviceVars>>

\* the next upload of the same face: the same image again or another one
NextUpload ==
    /\ analysis_stage = "done"
    /\ analysis_calls < MaxCalls
    /\ np_image' \in ImageSet
    /\ analysis_stage' = "input"
    /\ UNCHANGED <<face_found, points, response, analysis_calls, report_log,
                   classifyVars, toneVars, undertoneVars, overlayVars, serviceVars>>

NextAnalysis == AnalyzeImage \/ NextUpload

SpecAnalysis == InitAnalysis /\ [][NextAnalysis]_vars

(***************************************************************************)
(* Claims about the pipeline (checked under SpecAnalysis).                 *)
(***************************************************************************)
\* C5: for any landmark sequence handed to the pipeline, also one in which some of
\* the indices read are absent, every component checks the index before the access
\* and the analysis degrades to fallback values: it never ends in an index failure.
C5_NoIndexFailure ==
    (analysis_stage = "done" /\ face_found) => response.error # "IndexError"

\* the cheek sample of the analysed image averages to exactly (220, 180, 160)
ScenarioSample ==
    /\ analysis_stage = "done"
    /\ response.error = "none"
    /\ LET avg == avg_rgb_of(np_image, cheek_mask(np_image, points))
       IN  /\ avg.sum[1] = 220 * avg.n
           /\ avg.sum[2] = 180 * avg.n
           /\ avg.sum[3] = 160 * avg.n

\* C6 as stated: a cheek sample whose average RGB is (220, 180, 160) yields the tone
\* medium.
C6_ScenarioMedium == ScenarioSample => response.skin_tone = "medium"

\* C6 as amended: a cheek sample whose average RGB is (220, 180, 160) yields the tone
\* very_light (its ITA is about 59.3 degrees, above the threshold 55).
C6_ScenarioVeryLight ==
    ScenarioSample =>
        /\ response.skin_tone = "very_light"
        /\ response.skin_sample_rgb = <<220, 180, 160>>

\* the sample of two columns of different colours averages to the scenario colour
C6_Witness ==
    /\ ScenarioSample
    /\ \E q \in DOMAIN np_image : np_image[q] # <<220, 180, 160>>
    /\ response.skin_tone = "very_light"

InsufficientSample == "ValueError: Insufficient data for skin tone analysis. Try again."

\* C9: whenever the filled-polygon mask of the four cheek landmarks contains zero
\* pixels, analyze_skin_tone fails with the insufficient-sample error and returns no
\* tone, undertone or sample_rgb; no result is ever computed from an empty sample.
C9_EmptySample ==
    (analysis_stage = "done" /\ face_found /\ ~calculate_dimensions_raises(points)) =>
        LET empty == cheek_mask(np_image, points) = {}
        IN  /\ empty =>
                  /\ response.error = InsufficientSample
                  /\ response.skin_tone = "unset"
                  /\ response.undertone = "unset"
                  /\ response.skin_sample_rgb = <<0, 0, 0>>
            /\ response.error = "none" => ~empty

\* a face wholly outside the image: the mask is empty and the call has failed
C9_Witness ==
    /\ analysis_stage = "done"
    /\ face_found
    /\ Len(points) = 468
    /\ cheek_mask(np_image, points) = {}
    /\ response.error = InsufficientSample

(***************************************************************************)
(* Specification SpecRecommend: build_recommendations applied to a shape   *)
(* and an undertone, call after call.                                      *)
(***************************************************************************)
\* the three undertones and two strings that are none of them
UndertoneArguments == {"warm", "cool", "neutral", "olive", ""}

InitRecommend ==
    /\ rec_call = NoRecCall
    /\ prev_rec_call = NoRecCall
    /\ ClassifyIdle /\ ToneIdle /\ UndertoneIdle /\ OverlayIdle /\ AnalysisIdle
    /\ SymmetryIdle /\ BrowserIdle /\ ClockIdle /\ AuthIdle /\ ExtraIdle

BuildRecommendations ==
    \E sh \in ShapeArguments, u \in UndertoneArguments :
        /\ prev_rec_call' = rec_call
        /\ rec_call' =
              LET r == build_recommendations(sh, u)
              IN  [called |-> TRUE, shape |-> sh, undertone |-> u,
                   error |-> r.error, result |-> r.value]
        /\ UNCHANGED <<classifyVars, toneVars, undertoneVars, overlayVars, analysisVars,
                       symmetryVars, browserVars, clockVars, authVars, extraVars>>

NextRecommend == BuildRecommendations

SpecRecommend == InitRecommend /\ [][NextRecommend]_vars

\* C13: build_recommendations never fails on unknown keys: for a shape outside the
\* six its blush / contour / highlight details are those of oval, for an undertone
\* outside warm, cool, neutral its blush / eyes / lips shades are those of neutral,
\* and every result has exactly the categories blush, contour, highlight, eyes, lips,
\* with contour and highlight finish lists that do not vary with the undertone.
C13_RecommendationFallbacks ==
    rec_call.called =>
        LET r == rec_call.result
        IN  /\ rec_call.error = "none"
            /\ DOMAIN r = {"blush", "contour", "highlight", "eyes", "lips"}
            /\ rec_call.shape \notin FaceShapes =>
                  /\ r.blush.details = shape_guidance["oval"]["blush"]
                  /\ r.contour.details = shape_guidance["oval"]["contour"]
                  /\ r.highlight.details = shape_guidance["oval"]["highlight"]
            /\ rec_call.undertone \notin {"warm", "cool", "neutral"} =>
                  /\ r.blush.suggested_shades = palettes["neutral"]["blush"]
                  /\ r.eyes.suggested_shades = palettes["neutral"]["eyes"]
                  /\ r.lips.suggested_shades = palettes["neutral"]["lips"]
            /\ r.contour.suggested_finishes =
                  <<"Soft matte stick", "Sheer cream", "Buildable powder">>
            /\ r.highlight.suggested_finishes =
                  <<"Cream luminizer", "Soft pearl powder", "Liquid glow">>
            /\ prev_rec_call.called =>
                  /\ prev_rec_call.result.contour.suggested_finishes =
                        r.contour.suggested_finishes
                  /\ prev_rec_call.result.highlight.suggested_finishes =
                        r.highlight.suggested_finishes

\* an unknown shape with an unknown undertone, after a call with a known shape and
\* another undertone: oval's guidance with neutral's shades
C13_Witness ==
    /\ rec_call.called /\ prev_rec_call.called
    /\ rec_call.shape = "triangle" /\ rec_call.undertone = "olive"
    /\ prev_rec_call.shape = "square" /\ prev_rec_call.undertone = "warm"
    /\ rec_call.result.blush.details = "Apply to apples and blend outward along cheekbones."
    /\ rec_call.result.lips.suggested_shades = <<"Rosewood", "Balanced nude", "Classic red">>
    /\ prev_rec_call.result.lips.suggested_shades # rec_call.result.lips.suggested_shades

(***************************************************************************)
(* Specification SpecSymmetry: compute_symmetry applied to a landmark      *)
(* sequence and a bounding box.                                            *)
(***************************************************************************)
\* lengths that leave out all, some or none of the indices 1, 159, 234, 386, 454
SymmetryCounts == {0, 1, 2, 160, 235, 387, 455}

\* the nose from left of the middle to right of it, at cheek height
NoseSet == {<<20 + 5 * k, 30>> : k \in 0..MaxNoseStep}

\* the landmark sequence of n points with the nose, the two cheeks and the right eye
\* placed as given
SymmetryLandmarks(n, nose, left_cheek, right_cheek, eye_y) ==
    [i \in 1..n |->
        CASE i - 1 = 1 -> nose
          [] i - 1 = 234 -> left_cheek
          [] i - 1 = 454 -> right_cheek
          [] i - 1 = 159 -> <<20, 22>>
          [] i - 1 = 386 -> <<40, eye_y>>
          [] OTHER -> BaseLandmark(i - 1)]

\* cheeks at the sides of the face, on the nose itself, or lower on one side; the
\* box of the landmarks, boxes that are not, and boxes without width or height
InitSymmetry ==
    /\ \E n \in SymmetryCounts, nose \in NoseSet, eye_y \in {22, 25} :
         \E left_cheek \in {<<6, 30>>, nose}, right_cheek \in {<<54, 30>>, nose, <<54, 37>>} :
            /\ sym_points = SymmetryLandmarks(n, nose, left_cheek, right_cheek, eye_y)
            /\ sym_box \in
                  {<<0, 0, 60, 60>>, <<0, 0, 0, 0>>, <<nose[1], nose[2], nose[1], nose[2]>>}
                      \cup (IF n = 0 THEN {}
                            ELSE {bounding_box_of(
                                     SymmetryLandmarks(n, nose, left_cheek, right_cheek, eye_y))})
    /\ sym_result = NoSymmetryCall
    /\ ClassifyIdle /\ ToneIdle /\ UndertoneIdle /\ OverlayIdle /\ AnalysisIdle
    /\ RecommendIdle /\ BrowserIdle /\ ClockIdle /\ AuthIdle /\ ExtraIdle

ComputeSymmetry ==
    /\ ~sym_result.called
    /\ sym_result' =
          LET r == compute_symmetry(sym_points, sym_box)
          IN  [called |-> TRUE, score |-> r.score, description |-> r.description,
               guidance |-> r.guidance, eye_delta |-> r.eye_delta]
    /\ UNCHANGED <<sym_points, sym_box, classifyVars, toneVars, undertoneVars,
                   overlayVars, analysisVars, recommendVars, browserVars, clockVars,
                   authVars, extraVars>>

NextSymmetry == ComputeSymmetry

SpecSymmetry == InitSymmetry /\ [][NextSymmetry]_vars

\* the squared nose-to-cheek distances of the call, fallback points included
SymmetryDistances ==
    LET mid_y == sym_box[2] + sym_box[4]
        nose == point_or(sym_points, 1, <<sym_box[1] + sym_box[3], mid_y>>)
    IN  [left |-> squared_norm(point_or(sym_points, 234, <<2 * sym_box[1], mid_y>>), nose),
         right |-> squared_norm(point_or(sym_points, 454, <<2 * sym_box[3], mid_y>>), nose)]

\* C14: for every landmark sequence and bounding box compute_symmetry returns a
\* symmetry_score in [0, 1], also when indices 1, 234 or 454 are absent and the
\* box-centre / box-edge fallback points are used; the score is 1 when the
\* nose-to-left-cheek and nose-to-right-cheek distances are equal (both zero too).
C14_SymmetryScoreRange ==
    sym_result.called =>
        /\ 0 <= sym_result.score /\ sym_result.score <= LabScale
        /\ SymmetryDistances.left = SymmetryDistances.right =>
              sym_result.score = LabScale

\* the cheeks are absent and the box is collapsed onto the nose: both fallback
\* distances are zero and the score is 1
C14_Witness ==
    /\ sym_result.called
    /\ Len(sym_points) = 2
    /\ sym_box = <<25, 30, 25, 30>>
    /\ SymmetryDistances = [left |-> 0, right |-> 0]
    /\ sym_result.score = LabScale

B64Alphabet == {"F", "N", "S"}

\* binascii.a2b_base64 as base64.b64decode calls it (validate=False): characters
\* outside the alphabet are skipped, a pad that completes a quad of two or three
\* characters ends the decoding, pads elsewhere are skipped, and a quad left
\* incomplete at the end is binascii.Error
RECURSIVE a2b_base64(_, _, _, _, _)
a2b_base64(text, i, quad_pos, pads, out) ==
    IF i > Len(text) THEN [error |-> quad_pos # 0, bytes |-> out]
    ELSE IF text[i] = "="
    THEN IF quad_pos >= 2 /\ quad_pos + pads + 1 >= 4
         THEN [error |-> FALSE, bytes |-> out]
         ELSE a2b_base64(text, i + 1, quad_pos,
                         IF quad_pos >= 2 THEN pads + 1 ELSE pads, out)
    ELSE IF text[i] \in B64Alphabet
    THEN a2b_base64(text, i + 1, (quad_pos + 1) % 4, 0, Append(out, text[i]))
    ELSE a2b_base64(text, i + 1, quad_pos, pads, out)

b64decode(text) == a2b_base64(text, 1, 0, 0, <<>>)

\* the uploads that are image files: a selfie in which the detector finds a face
\* (478 landmarks), and a picture without a face
FaceUpload == <<"F", "F", "F", "F">>
NoFaceUpload == <<"N", "N", "N", "N">>
\* a selfie whose face the detector places wholly outside the frame
OffFrameUpload == <<"S", "S", "S", "S">>

\* what Image.open(...).convert("RGB") and the detector give for the selfie
FaceUploadImage == [q \in ImagePixels |-> <<220, 180, 160>>]
FaceUploadPoints == [i \in 1..478 |-> Landmark(i - 1, "quad", 4, 0)]

\* the reports of the two image files
FaceUploadReport ==
    CHOOSE report \in {analyze_image(img, TRUE, pts) :
                          img \in {FaceUploadImage}, pts \in {FaceUploadPoints}} : TRUE
NoFaceUploadReport ==
    CHOOSE report \in {analyze_image(img, FALSE, <<>>) :
                          img \in {[q \in ImagePixels |-> <<90, 60, 50>>]}} : TRUE

OffFrameUploadReport ==
    CHOOSE report \in {analyze_image(img, TRUE, pts) :
                          img \in {FaceUploadImage},
                          pts \in {[i \in 1..478 |-> Landmark(i - 1, "quad", 4, 100)]}} : TRUE

\* analyze_image(image_bytes): bytes that are no image file make Image.open raise
\* UnidentifiedImageError (an OSError); an image file goes through the pipeline
analyze_upload(image_bytes) ==
    IF image_bytes = FaceUpload THEN FaceUploadReport
    ELSE IF image_bytes = NoFaceUpload THEN NoFaceUploadReport
    ELSE IF image_bytes = OffFrameUpload THEN OffFrameUploadReport
    ELSE Raised("UnidentifiedImageError")

\* the exceptions of analyze_image that are ValueError, with str(exc)
ValueErrorDetail ==
    [e \in {NoFaceDetected, InsufficientSample, "ValueError: not enough values to unpack"}
        |-> CASE e = NoFaceDetected ->
                    "No face detected. Please retake the selfie with better lighting."
              [] e = InsufficientSample ->
                    "Insufficient data for skin tone analysis. Try again."
              [] OTHER -> "not enough values to unpack"]

\* AnalysisResultCreateModel.parse_obj of the dict built by the handler; insights is
\* not in the dict and takes its default
create_model_of(result, payload) ==
    [face_shape |-> result.face_shape, skin_tone |-> result.skin_tone,
     undertone |-> result.undertone, skin_sample_rgb |-> result.skin_sample_rgb,
     dimensions |-> result.dimensions, overlay |-> result.overlay,
     recommendations |-> result.recommendations,
     image_base64 |-> payload.image_base64, source |-> "impact_browser",
     notes |-> payload.notes, insights |-> PyNone]

\* AnalysisResultCreateModel.to_result: id and created_at from their default
\* factories (uuid4, utcnow); notes is not among the keywords passed on and takes the
\* default of AnalysisResultModel
to_result(create_model, new_id, created_at) ==
    [id |-> new_id, created_at |-> created_at,
     face_shape |-> create_model.face_shape, skin_tone |-> create_model.skin_tone,
     undertone |-> create_model.undertone,
     skin_sample_rgb |-> create_model.skin_sample_rgb,
     dimensions |-> create_model.dimensions, overlay |-> create_model.overlay,
     recommendations |-> create_model.recommendations,
     image_base64 |-> create_model.image_base64, source |-> create_model.source,
     notes |-> PyNone, insights |-> create_model.insights]

\* JSON's null
JsonNull == "<null>"

OptionalToJson(v) == IF v = PyNone THEN JsonNull ELSE v
OptionalFromJson(v) == IF v = JsonNull THEN PyNone ELSE v

\* json.loads(item.json()): the id and the time become strings, None becomes null
entry_to_json(item) ==
    [item EXCEPT !.id = <<"uuid", item.id>>,
                 !.created_at = <<"isoformat", item.created_at>>,
                 !.image_base64 = OptionalToJson(item.image_base64),
                 !.notes = OptionalToJson(item.notes),
                 !.insights = OptionalToJson(item.insights)]

\* AnalysisResultModel.parse_obj of a stored item
entry_from_json(item) ==
    [item EXCEPT !.id = item.id[2],
                 !.created_at = item.created_at[2],
                 !.image_base64 = OptionalFromJson(item.image_base64),
                 !.notes = OptionalFromJson(item.notes),
                 !.insights = OptionalFromJson(item.insights)]

\* HistoryStorage._load and _save
history_load(file) == [i \in DOMAIN file |-> entry_from_json(file[i])]
history_save(items) == [i \in DOMAIN items |-> entry_to_json(items[i])]

\* mutant: current.append(result), the new entry goes to the tail
history_create_append(file, create_model, new_id, created_at) ==
    LET result == to_result(create_model, new_id, created_at)
    IN  [file |-> history_save(Append(history_load(file), result)), result |-> result]

\* HistoryStorage.create, under the lock: load, insert at index 0, save
history_create(file, create_model, new_id, created_at) ==
    LET result == to_result(create_model, new_id, created_at)
    IN  [file |-> history_save(<<result>> \o history_load(file)), result |-> result]

HttpError(status, detail) ==
    [NoApiResponse EXCEPT !.status = status, !.detail = detail]

\* mutant: the history entry is written before the outcome of the analysis is looked at
browser_response_store_first(result, payload, file, new_id, created_at) ==
    LET stored == history_create(file, create_model_of(result, payload), new_id, created_at)
        kept == IF payload.store_history THEN stored.file ELSE file
    IN  IF result.error \in DOMAIN ValueErrorDetail
        THEN [response |-> HttpError(422, ValueErrorDetail[result.error]),
              file |-> kept, invoked |-> TRUE]
        ELSE IF result.error # "none"
        THEN [response |-> HttpError(500, "Analysis failed."),
              file |-> kept, invoked |-> TRUE]
        ELSE IF payload.store_history
        THEN [response |->
                 [status |-> 200, detail |-> "", result |-> result,
                  history_id |-> <<"uuid", stored.result.id>>,
                  created_at |-> <<"isoformat", stored.result.created_at>>],
              file |-> stored.file, invoked |-> TRUE]
        ELSE [response |->
                 [status |-> 200, detail |-> "", result |-> result,
                  history_id |-> PyNone, created_at |-> PyNone],
              file |-> file, invoked |-> TRUE]

\* the handler once analyze_image has returned or raised: 422 for a ValueError, 500
\* for any other exception, else the response, after history_storage.create when
\* store_history is set
browser_response(result, payload, file, new_id, created_at) ==
    IF result.error \in DOMAIN ValueErrorDetail
    THEN [response |-> HttpError(422, ValueErrorDetail[result.error]),
          file |-> file, invoked |-> TRUE]
    ELSE IF result.error # "none"
    THEN [response |-> HttpError(500, "Analysis failed."),
          file |-> file, invoked |-> TRUE]
    ELSE IF payload.store_history
    THEN LET stored == history_create(file, create_model_of(result, payload),
                                      new_id, created_at)
         IN  [response |->
                 [status |-> 200, detail |-> "", result |-> result,
                  history_id |-> <<"uuid", stored.result.id>>,
                  created_at |-> <<"isoformat", stored.result.created_at>>],
              file |-> stored.file, invoked |-> TRUE]
    ELSE [response |->
             [status |-> 200, detail |-> "", result |-> result,
              history_id |-> PyNone, created_at |-> PyNone],
          file |-> file, invoked |-> TRUE]

\* the handler: what it answers, what the store holds afterwards, and whether it
\* invoked analyze_image
impact_analyze_browser(payload, file, new_id, created_at) ==
    LET decoded == b64decode(payload.image_base64)
    IN  IF decoded.error
        THEN [response |-> HttpError(400, "Invalid base64 image payload."),
              file |-> file, invoked |-> FALSE]
        ELSE browser_response(analyze_upload(decoded.bytes), payload, file,
                              new_id, created_at)

(***************************************************************************)
(* Specification SpecBrowser: requests to impact_analyze_browser, one      *)
(* after the other (the handler has no await and runs to its end), against *)
(* a history store that starts empty.                                      *)
(***************************************************************************)
\* the two image files, well-formed base64 of bytes that are no image (one of them
\* padded, one empty), texts that are not base64 (a character outside the alphabet,
\* a missing pad, a lone pad), among them one that still decodes to the selfie
PayloadSet ==
    {FaceUpload, NoFaceUpload, OffFrameUpload, <<"F", "F", "N", "N">>, <<"F", "F", "=", "=">>, <<>>,
     <<"@", "@", "F", "N", "F", "@", "@">>, <<"F", "F", "=">>, <<"F", "F", "F", "F", "F">>,
     <<"@", "F", "F", "F", "F">>}

NotesSet == {PyNone, "browser test", "retake"}

\* uuid4: an id that no stored entry has
FreshIds == {k \in 1..(MaxBrowserCalls + 1) :
                \A i \in DOMAIN history_store : history_store[i].id # <<"uuid", k>>}

InitBrowser ==
    /\ api_request = NoApiRequest
    /\ api_response = NoApiResponse
    /\ history_store = <<>>
    /\ at_entry = [history |-> <<>>, calls |-> 0]
    /\ now = 0
    /\ analysis_calls = 0
    /\ np_image = <<>> /\ face_found = FALSE /\ points = <<>>
    /\ response = NoResponse /\ analysis_stage = "idle" /\ report_log = {}
    /\ ClassifyIdle /\ ToneIdle /\ UndertoneIdle /\ OverlayIdle
    /\ RecommendIdle /\ SymmetryIdle /\ AuthIdle /\ ExtraIdle

ImpactAnalyzeBrowser ==
    /\ analysis_calls < MaxBrowserCalls
    /\ \E text \in PayloadSet, store \in BOOLEAN, notes \in NotesSet, new_id \in FreshIds :
          LET payload == [image_base64 |-> text, store_history |-> store, notes |-> notes]
          IN  \E done \in {impact_analyze_browser(payload, history_store, new_id, now)} :
                 /\ api_request' = payload
                 /\ at_entry' = [history |-> history_store, calls |-> analysis_calls]
                 /\ api_response' = done.response
                 /\ history_store' = done.file
                 /\ analysis_calls' = IF done.invoked THEN analysis_calls + 1
                                      ELSE analysis_calls
    /\ UNCHANGED <<now, np_image, face_found, points, response, analysis_stage,
                   report_log, classifyVars, toneVars, undertoneVars, overlayVars,
                   recommendVars, symmetryVars, authVars, extraVars>>

\* time passes
Tick ==
    /\ now < MaxTime
    /\ now' = now + 1
    /\ UNCHANGED <<browserVars, authVars, extraVars, analysisVars, classifyVars,
                   toneVars, undertoneVars, overlayVars, recommendVars, symmetryVars>>

NextBrowser == ImpactAnalyzeBrowser \/ Tick

SpecBrowser == InitBrowser /\ [][NextBrowser]_vars

(***************************************************************************)
(* Claims about impact_analyze_browser (checked under SpecBrowser).        *)
(***************************************************************************)
\* the request answered last carried an image that decodes and is analysed without
\* an exception
AnalysisSucceeded ==
    /\ api_request # NoApiRequest
    /\ ~b64decode(api_request.image_base64).error
    /\ analyze_upload(b64decode(api_request.image_base64).bytes).error = "none"

C17_NotesStored ==
    (AnalysisSucceeded /\ api_request.store_history) =>
        history_load(history_store)[1].notes = api_request.notes

\* RFC 4648: quads of alphabet characters, at most two pads, at the very end
IsValidBase64(text) ==
    /\ Len(text) % 4 = 0
    /\ \A i \in 1..Len(text) :
          \/ text[i] \in B64Alphabet
          \/ /\ text[i] = "="
             /\ i >= Len(text) - 1
             /\ text[Len(text)] = "="

\* C18: a request whose image_base64 is not valid base64 is rejected with status 400
\* and detail 'Invalid base64 image payload.'; analyze_image is never invoked and the
\* history store is unchanged.
C18_InvalidBase64Rejected ==
    (api_response # NoApiResponse /\ ~IsValidBase64(api_request.image_base64)) =>
        /\ api_response.status = 400
        /\ api_response.detail = "Invalid base64 image payload."
        /\ analysis_calls = at_entry.calls
        /\ history_store = at_entry.history

\* C23: whenever analyze_image fails inside impact_analyze_browser, the endpoint
\* returns an error status (422 with the error's message for the no-face and the
\* insufficient-sample error, 500 'Analysis failed.' otherwise), returns no report,
\* performs no retry, and creates no history entry even when store_history is true.
C23_AnalysisFailureReported ==
    (api_request # NoApiRequest /\ ~b64decode(api_request.image_base64).error) =>
        LET e == analyze_upload(b64decode(api_request.image_base64).bytes).error
        IN  e # "none" =>
               /\ e = NoFaceDetected =>
                     /\ api_response.status = 422
                     /\ api_response.detail =
                           "No face detected. Please retake the selfie with better lighting."
               /\ e = InsufficientSample =>
                     /\ api_response.status = 422
                     /\ api_response.detail =
                           "Insufficient data for skin tone analysis. Try again."
               /\ e \notin {NoFaceDetected, InsufficientSample} =>
                     /\ api_response.status = 500
                     /\ api_response.detail = "Analysis failed."
               /\ api_response.result = NoResponse
               /\ api_response.history_id = PyNone
               /\ api_response.created_at = PyNone
               /\ analysis_calls = at_entry.calls + 1
               /\ history_store = at_entry.history

\* the off-frame selfie sent with store_history set, after a selfie was stored: 422,
\* and the store still holds the one entry
C23_Witness ==
    /\ api_request.image_base64 = OffFrameUpload
    /\ api_request.store_history
    /\ api_response.status = 422
    /\ Len(at_entry.history) = 1
    /\ history_store = at_entry.history
    /\ analysis_calls = 2

(***************************************************************************)
(* AuthService.authenticate and the login route.  An email is a sequence   *)
(* of characters, so that str.lower() has something to do; a password is   *)
(* compared through its SHA-256 digest.                                    *)
(***************************************************************************)
\* str.lower() on the characters that occur
LowerChar(c) == CASE c = "D" -> "d" [] c = "F" -> "f" [] OTHER -> c
Lower(text) == [i \in DOMAIN text |-> LowerChar(text[i])]

\* settings.demo_user_email and settings.demo_user_password
demo_user_email == <<"d", "@", "f">>
demo_user_password == "Beauty123!"

\* hashlib.sha256(password.encode("utf-8")).hexdigest(): different passwords have
\* different digests
hash_password(password) == <<"sha256", password>>

\* settings.auth_token_ttl_seconds and settings.auth_token_ttl_remember_seconds
ttl_default == 3600
ttl_remember == 604800

LOGIN_INVALID_CREDENTIALS == "Invalid email or password."

\* mutant: the remember-me flag is ignored and every session gets the default TTL
create_session_default_ttl(store, remember_me, token, utcnow) ==
    [store |-> [t \in DOMAIN store \cup {token} |->
                   IF t = token THEN utcnow + ttl_default ELSE store[t]],
     session |-> [token |-> token, expires_at |-> utcnow + ttl_default,
                  ttl_seconds |-> ttl_default]]

\* AuthService._create_session: the token is what secrets.token_urlsafe returned
create_session(store, remember_me, token, utcnow) ==
    LET ttl == IF remember_me THEN ttl_remember ELSE ttl_default
        expires_at == utcnow + ttl
    IN  [store |-> [t \in DOMAIN store \cup {token} |->
                       IF t = token THEN expires_at ELSE store[t]],
         session |-> [token |-> token, expires_at |-> expires_at, ttl_seconds |-> ttl]]

NoSession == [token |-> PyNone, expires_at |-> 0, ttl_seconds |-> 0]

\* mutant: the session is created before the password is compared
authenticate_session_first(store, email, password, remember_me, token, utcnow) ==
    IF Lower(email) # Lower(demo_user_email)
    THEN [error |-> "InvalidCredentialsError", store |-> store, session |-> NoSession]
    ELSE LET created == create_session(store, remember_me, token, utcnow)
         IN  IF hash_password(password) # hash_password(demo_user_password)
             THEN [error |-> "InvalidCredentialsError", store |-> created.store,
                   session |-> NoSession]
             ELSE [error |-> "none", store |-> created.store, session |-> created.session]

\* AuthService.authenticate
authenticate(store, email, password, remember_me, token, utcnow) ==
    IF Lower(email) # Lower(demo_user_email)
    THEN [error |-> "InvalidCredentialsError", store |-> store, session |-> NoSession]
    ELSE IF hash_password(password) # hash_password(demo_user_password)
    THEN [error |-> "InvalidCredentialsError", store |-> store, session |-> NoSession]
    ELSE LET created == create_session(store, remember_me, token, utcnow)
         IN  [error |-> "none", store |-> created.store, session |-> created.session]

\* the login route: 401 for InvalidCredentialsError, else the LoginResponse
login(store, payload, token, utcnow) ==
    LET done == authenticate(store, payload.email, payload.password,
                             payload.remember_me, token, utcnow)
    IN  IF done.error = "InvalidCredentialsError"
        THEN [store |-> done.store,
              response |-> [NoLoginResponse EXCEPT !.status = 401,
                                                   !.detail = LOGIN_INVALID_CREDENTIALS]]
        ELSE [store |-> done.store,
              response |-> [status |-> 200, detail |-> "",
                            access_token |-> done.session.token,
                            expires_in |-> done.session.ttl_seconds,
                            expires_at |-> done.session.expires_at]]

(***************************************************************************)
(* Specification SpecAuth: logins, one after the other, while time passes. *)
(***************************************************************************)
\* the demo email as stored, in other cases, and two emails of nobody
EmailSet ==
    {<<"d", "@", "f">>, <<"D", "@", "F">>, <<"D", "@", "f">>, <<"x", "@", "f">>, <<"d", "@">>}

PasswordSet == {"Beauty123!", "wrong-password", "beauty123!", ""}

\* secrets.token_urlsafe(32): a token that the store does not hold
FreshTokens == {<<"token", k>> : k \in 1..(MaxSessions + 1)} \ DOMAIN token_store

InitAuth ==
    /\ login_request = NoLoginRequest
    /\ login_response = NoLoginResponse
    /\ token_store = EmptyDict
    /\ auth_entry = [store |-> EmptyDict, now |-> 0]
    /\ now = 0
    /\ ClassifyIdle /\ ToneIdle /\ UndertoneIdle /\ OverlayIdle /\ AnalysisIdle
    /\ RecommendIdle /\ SymmetryIdle /\ BrowserIdle /\ ExtraIdle

Login ==
    /\ Cardinality(DOMAIN token_store) < MaxSessions
    /\ \E email \in EmailSet, password \in PasswordSet, remember_me \in BOOLEAN,
          token \in FreshTokens :
          LET payload == [email |-> email, password |-> password,
                          remember_me |-> remember_me]
              done == login(token_store, payload, token, now)
          IN  /\ login_request' = payload
              /\ auth_entry' = [store |-> token_store, now |-> now]
              /\ login_response' = done.response
              /\ token_store' = done.store
    /\ UNCHANGED <<now, browserVars, extraVars, analysisVars, classifyVars, toneVars,
                   undertoneVars, overlayVars, recommendVars, symmetryVars>>

NextAuth == Login \/ Tick

SpecAuth == InitAuth /\ [][NextAuth]_vars

\* the credentials of the request answered last are the demo user's
CredentialsMatch ==
    /\ Lower(login_request.email) = Lower(demo_user_email)
    /\ login_request.password = demo_user_password

\* C19: every successful authenticate(email, password, remember_me) returns a
\* session whose ttl_seconds is the remember-me TTL when remember_me is true and the
\* default TTL otherwise, whose expires_at is the issue time plus that TTL, and
\* whose freshly generated token is recorded in the token store with that same
\* expiry; the email comparison is case-insensitive.
C19_SessionTtl ==
    /\ (login_response # NoLoginResponse /\ CredentialsMatch) => login_response.status = 200
    /\ login_response.status = 200 =>
          LET ttl == IF login_request.remember_me THEN 604800 ELSE 3600
              token == login_response.access_token
          IN  /\ CredentialsMatch
              /\ login_response.expires_in = ttl
              /\ login_response.expires_at = auth_entry.now + ttl
              /\ token \notin DOMAIN auth_entry.store
              /\ token \in DOMAIN token_store
              /\ token_store[token] = login_response.expires_at
              /\ \A t \in DOMAIN auth_entry.store :
                    t \in DOMAIN token_store /\ token_store[t] = auth_entry.store[t]

\* a remember-me login with the email in capitals, after time has passed and after
\* an earlier login: the second token expires a week after its issue
C19_Witness ==
    /\ login_response.status = 200
    /\ login_request.email = <<"D", "@", "F">>
    /\ login_request.remember_me
    /\ auth_entry.now = 1
    /\ login_response.expires_at = 604801
    /\ Cardinality(DOMAIN token_store) = 2
    /\ token_store[login_response.access_token] = 604801

\* C20: a login whose email is not the demo user's or whose password hash does not
\* match is rejected with status 401 and the invalid-credentials message, issues no
\* token, and leaves the token store exactly as it was, after any number of earlier
\* successful or failed logins.
C20_InvalidLoginRejected ==
    (login_response # NoLoginResponse /\ ~CredentialsMatch) =>
        /\ login_response.status = 401
        /\ login_response.detail = "Invalid email or password."
        /\ login_response.access_token = PyNone
        /\ token_store = auth_entry.store

\* the right email with a password that differs only in case, after a successful
\* login: rejected, and the one token of before is still the whole store
C20_Witness ==
    /\ login_response.status = 401
    /\ login_request.email = <<"d", "@", "f">>
    /\ login_request.password = "beauty123!"
    /\ Cardinality(DOMAIN token_store) = 1
    /\ token_store = auth_entry.store

(***************************************************************************)
(* Specification SpecInsights: one call of compute_brow_balance or of      *)
(* build_feature_ratios on arguments of its own.                           *)
(***************************************************************************)
\* the brow heights differ by up to MaxBrowStep steps of 0.1 px
MaxBrowStep == 6

\* landmark sequences that lack both brows, lack the right brow (index 300), or hold
\* both; the left brow at height 20 + ly, the right one at 20 + ry
BrowLandmarks ==
    {[i \in 1..n |-> IF i = 71 THEN <<20, 20 + ly>>
                     ELSE IF i = 301 THEN <<40, 20 + ry>> ELSE <<30, 30>>] :
        n \in {0, 70, 71, 300, 301, 478}, ly \in 0..MaxBrowStep, ry \in 0..MaxBrowStep}

\* box heights: none, below and at three times a brow gap, and a face-sized one
BrowHeights == {0, 1, 3, 6, 7, 18, 400}

\* dimensions whose ratios fall on both sides of every threshold of the messages
RatioDimensions ==
    {[forehead_width |-> f, cheekbone_width |-> c, jaw_width |-> j, face_length |-> l,
      jaw_angle |-> 0] :
        f \in {0, 90, 95, 96, 100, 104, 105, 110, 111},
        c \in {0, 100, 101, 105, 109, 110, 115, 116},
        j \in {0, 100},
        l \in {0, 100, 128, 129, 133, 137, 138, 148, 149, 200}}

InitInsights ==
    /\ insight_call = NoInsightCall
    /\ ClassifyIdle /\ ToneIdle /\ UndertoneIdle /\ OverlayIdle /\ AnalysisIdle
    /\ RecommendIdle /\ SymmetryIdle /\ BrowserIdle /\ ClockIdle /\ AuthIdle
    /\ SessionIdle /\ RaceIdle /\ HistoryCallIdle

ComputeBrowBalance ==
    /\ insight_call.op = "none"
    /\ \E pts \in BrowLandmarks, height \in BrowHeights :
          insight_call' = [op |-> "compute_brow_balance", pts |-> pts, height |-> height,
                           dims |-> NoDimensions,
                           result |-> compute_brow_balance(pts, height)]
    /\ UNCHANGED <<classifyVars, toneVars, undertoneVars, overlayVars, analysisVars,
                   recommendVars, symmetryVars, browserVars, clockVars, authVars,
                   sessionVars, raceVars, historyCallVars>>

BuildFeatureRatios ==
    /\ insight_call.op = "none"
    /\ \E d \in RatioDimensions :
          insight_call' = [op |-> "build_feature_ratios", pts |-> <<>>, height |-> 0,
                           dims |-> d, result |-> build_feature_ratios(d)]
    /\ UNCHANGED <<classifyVars, toneVars, undertoneVars, overlayVars, analysisVars,
                   recommendVars, symmetryVars, browserVars, clockVars, authVars,
                   sessionVars, raceVars, historyCallVars>>

NextInsights == ComputeBrowBalance \/ BuildFeatureRatios

SpecInsights == InitInsights /\ [][NextInsights]_vars

\* C24: compute_brow_balance returns 0.8 whenever either brow landmark (index 70 or
\* 300) is absent, and otherwise 1 - min(1, 3 * |left_y - right_y| / max(height, eps));
\* the result is always in [0, 1], is 1 when the two brow heights are equal, and is 0
\* when they differ by at least one third of the box height.
C24_BrowBalance ==
    insight_call.op = "compute_brow_balance" =>
        LET pts == insight_call.pts
            height == insight_call.height
            score == insight_call.result
        IN  /\ score >= 0 /\ score <= 10000
            /\ Len(pts) <= 300 => score = 8000
            /\ Len(pts) > 300 =>
                  LET gap == IF pts[71][2] >= pts[301][2] THEN pts[71][2] - pts[301][2]
                             ELSE pts[301][2] - pts[71][2]
                      taken == 10000 - score
                  IN  /\ gap = 0 => score = 10000
                      /\ (gap > 0 /\ 3 * gap >= height) => score = 0
                      \* taken is min(1, 3 * gap / height), rounded down to 1e-4
                      /\ (height > 0 /\ 3 * gap < height) =>
                            /\ taken * height <= 3 * gap * 10000
                            /\ 3 * gap * 10000 < (taken + 1) * height

\* both brows present, 0.2 px apart in a box 1.8 px high: the score is 2/3
C24_Witness ==
    /\ insight_call.op = "compute_brow_balance"
    /\ Len(insight_call.pts) = 478
    /\ insight_call.pts[71][2] = 22 /\ insight_call.pts[301][2] = 24
    /\ insight_call.height = 18
    /\ insight_call.result = 6667

\* the messages of the three ratios, from delta and the upper threshold
RatioMessage(delta, high, above, balanced, otherwise) ==
    IF delta > high THEN above
    ELSE IF delta > -500 /\ delta < 500 THEN balanced
    ELSE otherwise

\* C25: build_feature_ratios returns exactly three entries in this order - face
\* length vs. width (ideal 1.33), forehead vs. jaw width (ideal 1.0), cheekbone vs.
\* jaw width (ideal 1.05) - each with delta = value - ideal and a message chosen from
\* delta alone: 'Elongated' when delta > 0.15, 'Balanced' when |delta| < 0.05,
\* 'Softly wider' otherwise; the second and third use 0.1 and 0.05 in the same way,
\* so a value above the ideal by between 0.05 and the upper threshold gets the same
\* message as a value below the ideal.
C25_FeatureRatios ==
    insight_call.op = "build_feature_ratios" =>
        LET ratios == insight_call.result
            d == insight_call.dims
        IN  /\ Len(ratios) = 3
            /\ <<ratios[1].name, ratios[2].name, ratios[3].name>> =
                  <<"Face length vs. width", "Forehead vs. jaw width",
                    "Cheekbone vs. jaw width">>
            /\ <<ratios[1].ideal, ratios[2].ideal, ratios[3].ideal>> = <<13300, 10000, 10500>>
            /\ \A i \in 1..3 : ratios[i].delta = ratios[i].value - ratios[i].ideal
            /\ d.cheekbone_width > 0 =>
                  ratios[1].value = (d.face_length * 10000) \div d.cheekbone_width
            /\ d.jaw_width > 0 =>
                  /\ ratios[2].value = (d.forehead_width * 10000) \div d.jaw_width
                  /\ ratios[3].value = (d.cheekbone_width * 10000) \div d.jaw_width
            /\ ratios[1].message =
                  RatioMessage(ratios[1].delta, 1500, "Elongated", "Balanced", "Softly wider")
            /\ ratios[2].message =
                  RatioMessage(ratios[2].delta, 1000, "Stronger forehead", "Even width",
                               "Defined jaw")
            /\ ratios[3].message =
                  RatioMessage(ratios[3].delta, 1000, "Pronounced cheekbones", "Balanced",
                               "Softer cheeks")
            /\ (ratios[1].delta >= 500 /\ ratios[1].delta <= 1500) =>
                  ratios[1].message = "Softly wider"
            /\ (ratios[2].delta >= 500 /\ ratios[2].delta <= 1000) =>
                  ratios[2].message = "Defined jaw"
            /\ (ratios[3].delta >= 500 /\ ratios[3].delta <= 1000) =>
                  ratios[3].message = "Softer cheeks"

\* a face 1.38 times as long as wide with a forehead 1.1 times the jaw: both ratios
\* lie above their ideals and get the messages of a value below it
C25_Witness ==
    /\ insight_call.op = "build_feature_ratios"
    /\ insight_call.result[1].delta = 500
    /\ insight_call.result[1].message = "Softly wider"
    /\ insight_call.result[2].delta = 1000
    /\ insight_call.result[2].message = "Defined jaw"
    /\ insight_call.result[3].delta = -500
    /\ insight_call.result[3].message = "Softer cheeks"

(***************************************************************************)
(* HistoryStorage.delete and clear, and the routes over them.              *)
(***************************************************************************)
\* str(item.id) of a stored item, as the path parameter is compared with it
str_of_id(item) == <<"uuid", item.id>>

RECURSIVE reversed(_)
reversed(items) ==
    IF items = <<>> THEN <<>> ELSE Append(reversed(Tail(items)), Head(items))

\* mutant: the items that are kept are written in the opposite order
history_delete_reversed(file, record_id) ==
    LET current == history_load(file)
        updated == SelectSeq(current, LAMBDA item : str_of_id(item) # record_id)
    IN  IF Len(updated) = Len(current) THEN [file |-> file, result |-> FALSE]
        ELSE [file |-> history_save(reversed(updated)), result |-> TRUE]

\* HistoryStorage.delete, under the lock: nothing is saved when no item was dropped
history_delete(file, record_id) ==
    LET current == history_load(file)
        updated == SelectSeq(current, LAMBDA item : str_of_id(item) # record_id)
    IN  IF Len(updated) = Len(current) THEN [file |-> file, result |-> FALSE]
        ELSE [file |-> history_save(updated), result |-> TRUE]

\* HistoryStorage.clear, under the lock
history_clear(file) ==
    [file |-> history_save(<<>>), result |-> Len(history_load(file))]

\* the routes: 404 when delete returned False, else 204
delete_history_entry(file, record_id) ==
    LET done == history_delete(file, record_id)
    IN  [file |-> done.file,
         call |-> [op |-> "delete", record_id |-> record_id, result |-> done.result,
                   status |-> IF done.result THEN 204 ELSE 404]]

clear_history(file) ==
    LET done == history_clear(file)
    IN  [file |-> done.file,
         call |-> [op |-> "clear", record_id |-> PyNone, result |-> done.result,
                   status |-> 204]]

(***************************************************************************)
(* Specification SpecHistory: entries are created, deleted by id and       *)
(* cleared, one call after the other.                                      *)
(***************************************************************************)
\* the store holds at most MaxEntries entries
MaxEntries == 3

\* the body of POST /history: an entry of the given face shape
CreatePayload(shape_name) ==
    [face_shape |-> shape_name, skin_tone |-> "light", undertone |-> "neutral",
     skin_sample_rgb |-> <<220, 180, 160>>, dimensions |-> NoDimensions,
     overlay |-> [bounding_box |-> <<0, 0, 0, 0>>, zones |-> NoZones],
     recommendations |-> NoRecommendations, image_base64 |-> PyNone,
     source |-> "manual", notes |-> PyNone, insights |-> PyNone]

\* uuid4: an id that no stored entry has
UnusedIds == {k \in 1..(MaxEntries + 1) :
                 \A i \in DOMAIN history_store : history_store[i].id # <<"uuid", k>>}

\* the path parameter: the text of an id that may be stored, or the same text in
\* another spelling, which is the text of no stored id
RecordIds == {<<"uuid", k>> : k \in 1..(MaxEntries + 1)} \cup {<<"UUID", 1>>}

InitHistory ==
    /\ history_store = <<>>
    /\ history_call = NoHistoryCall
    /\ at_entry = [history |-> <<>>, calls |-> 0]
    /\ api_request = NoApiRequest /\ api_response = NoApiResponse
    /\ ClassifyIdle /\ ToneIdle /\ UndertoneIdle /\ OverlayIdle /\ AnalysisIdle
    /\ RecommendIdle /\ SymmetryIdle /\ ClockIdle /\ AuthIdle
    /\ InsightIdle /\ SessionIdle /\ RaceIdle

CreateHistoryEntry ==
    /\ Len(history_store) < MaxEntries
    /\ \E shape_name \in {"oval", "round"}, new_id \in UnusedIds :
          /\ history_store' =
                history_create(history_store, CreatePayload(shape_name), new_id, now).file
          /\ history_call' = [op |-> "create", record_id |-> <<"uuid", new_id>>,
                              result |-> PyNone, status |-> 201]
    /\ at_entry' = [history |-> history_store, calls |-> analysis_calls]
    /\ UNCHANGED <<api_request, api_response, classifyVars, toneVars, undertoneVars,
                   overlayVars, analysisVars, recommendVars, symmetryVars, clockVars,
                   authVars, insightVars, sessionVars, raceVars>>

DeleteHistoryEntry ==
    /\ \E record_id \in RecordIds :
          \E done \in {delete_history_entry(history_store, record_id)} :
             /\ history_store' = done.file
             /\ history_call' = done.call
    /\ at_entry' = [history |-> history_store, calls |-> analysis_calls]
    /\ UNCHANGED <<api_request, api_response, classifyVars, toneVars, undertoneVars,
                   overlayVars, analysisVars, recommendVars, symmetryVars, clockVars,
                   authVars, insightVars, sessionVars, raceVars>>

ClearHistory ==
    /\ \E done \in {clear_history(history_store)} :
          /\ history_store' = done.file
          /\ history_call' = done.call
    /\ at_entry' = [history |-> history_store, calls |-> analysis_calls]
    /\ UNCHANGED <<api_request, api_response, classifyVars, toneVars, undertoneVars,
                   overlayVars, analysisVars, recommendVars, symmetryVars, clockVars,
                   authVars, insightVars, sessionVars, raceVars>>

NextHistory == CreateHistoryEntry \/ DeleteHistoryEntry \/ ClearHistory

SpecHistory == InitHistory /\ [][NextHistory]_vars

\* C29: delete(record_id) with an id that matches no stored entry returns False,
\* writes nothing and leaves the stored list unchanged (the endpoint answers 404);
\* with an id that matches it returns True and the stored list afterwards is the
\* previous list with exactly the entries of that id removed, the order of the others
\* preserved; clear leaves the list empty and returns the number of entries removed.
C29_DeleteAndClear ==
    LET before == at_entry.history
        kept == {i \in DOMAIN before : before[i].id # history_call.record_id}
        \* the position in `before` of the n-th entry that is kept
        nth(n) == CHOOSE i \in kept : Cardinality({j \in kept : j <= i}) = n
    IN  /\ (history_call.op = "delete" /\ kept = DOMAIN before) =>
              /\ history_call.result = FALSE
              /\ history_call.status = 404
              /\ history_store = before
        /\ (history_call.op = "delete" /\ kept # DOMAIN before) =>
              /\ history_call.result = TRUE
              /\ history_call.status = 204
              /\ Len(history_store) = Cardinality(kept)
              /\ \A n \in DOMAIN history_store : history_store[n] = before[nth(n)]
        /\ history_call.op = "clear" =>
              /\ history_store = <<>>
              /\ history_call.result = Len(before)

\* the middle one of three entries has been deleted: the other two remain, the newer
\* one first
C29_Witness ==
    /\ history_call.op = "delete"
    /\ history_call.result = TRUE
    /\ Len(at_entry.history) = 3
    /\ at_entry.history[2].id = history_call.record_id
    /\ history_store = <<at_entry.history[1], at_entry.history[3]>>
    /\ at_entry.history[1].face_shape # at_entry.history[3].face_shape

(***************************************************************************)
(* AuthService: one-time codes, social login, validate and revoke.  A      *)
(* phone number is the sequence of its characters.                         *)
(***************************************************************************)
Digits == {"0", "1", "2", "3", "4", "5", "6", "7", "8", "9"}

\* AuthService._normalize_phone: a number that starts with "+" is returned as it
\* is; otherwise its digits, without a leading "00"
normalize_phone(phone_number) ==
    LET digits == SelectSeq(phone_number, LAMBDA ch : ch \in Digits)
    IN  IF Len(phone_number) > 0 /\ phone_number[1] = "+" THEN phone_number
        ELSE IF Len(digits) >= 2 /\ digits[1] = "0" /\ digits[2] = "0"
        THEN SubSeq(digits, 3, Len(digits))
        ELSE digits

\* settings.demo_user_phone, "+15555551234"
demo_user_phone == <<"+", "1", "5", "5", "5", "5", "5", "5", "1", "2", "3", "4">>

\* settings.otp_code_ttl_seconds
otp_ttl == 300

\* f"{n:06d}" of a number below 1,000,000
code_of(n) ==
    IF n < 10 THEN "00000" \o ToString(n)
    ELSE IF n < 100 THEN "0000" \o ToString(n)
    ELSE IF n < 1000 THEN "000" \o ToString(n)
    ELSE IF n < 10000 THEN "00" \o ToString(n)
    ELSE IF n < 100000 THEN "0" \o ToString(n)
    ELSE ToString(n)

NoChallenge == [phone_number |-> <<>>, code |-> "", expires_at |-> 0]

\* AuthService.request_otp: n is what secrets.randbelow returned
request_otp(otp, phone_number, n, utcnow) ==
    LET normalized_phone == normalize_phone(phone_number)
        challenge == [phone_number |-> normalized_phone, code |-> code_of(n),
                      expires_at |-> utcnow + otp_ttl]
    IN  IF normalized_phone # normalize_phone(demo_user_phone)
        THEN [raised |-> "InvalidCredentialsError", otp |-> otp, challenge |-> NoChallenge]
        ELSE [raised |-> "none",
              otp |-> [ph \in DOMAIN otp \cup {normalized_phone} |->
                          IF ph = normalized_phone THEN challenge ELSE otp[ph]],
              challenge |-> challenge]

\* mutant: the challenge is popped before it is compared
verify_otp_pop_first(tokens, otp, phone_number, code, token, utcnow) ==
    LET normalized_phone == normalize_phone(phone_number)
        popped == [ph \in DOMAIN otp \ {normalized_phone} |-> otp[ph]]
    IN  IF normalized_phone \notin DOMAIN otp
        THEN [raised |-> "InvalidCredentialsError", otp |-> otp, tokens |-> tokens,
              session |-> NoSession]
        ELSE IF otp[normalized_phone].code # code \/ utcnow > otp[normalized_phone].expires_at
        THEN [raised |-> "InvalidCredentialsError", otp |-> popped, tokens |-> tokens,
              session |-> NoSession]
        ELSE LET created == create_session(tokens, FALSE, token, utcnow)
             IN  [raised |-> "none", otp |-> popped,
                  tokens |-> created.store, session |-> created.session]

\* mutant: the session is created with remember_me set
verify_otp_remember(tokens, otp, phone_number, code, token, utcnow) ==
    LET normalized_phone == normalize_phone(phone_number)
    IN  IF normalized_phone \notin DOMAIN otp
        THEN [raised |-> "InvalidCredentialsError", otp |-> otp, tokens |-> tokens,
              session |-> NoSession]
        ELSE IF otp[normalized_phone].code # code \/ utcnow > otp[normalized_phone].expires_at
        THEN [raised |-> "InvalidCredentialsError", otp |-> otp, tokens |-> tokens,
              session |-> NoSession]
        ELSE LET created == create_session(tokens, TRUE, token, utcnow)
             IN  [raised |-> "none",
                  otp |-> [ph \in DOMAIN otp \ {normalized_phone} |-> otp[ph]],
                  tokens |-> created.store, session |-> created.session]

\* mutant: the challenge stays in the store after it was verified
verify_otp_keep(tokens, otp, phone_number, code, token, utcnow) ==
    LET normalized_phone == normalize_phone(phone_number)
    IN  IF normalized_phone \notin DOMAIN otp
        THEN [raised |-> "InvalidCredentialsError", otp |-> otp, tokens |-> tokens,
              session |-> NoSession]
        ELSE IF otp[normalized_phone].code # code \/ utcnow > otp[normalized_phone].expires_at
        THEN [raised |-> "InvalidCredentialsError", otp |-> otp, tokens |-> tokens,
              session |-> NoSession]
        ELSE LET created == create_session(tokens, FALSE, token, utcnow)
             IN  [raised |-> "none", otp |-> otp,
                  tokens |-> created.store, session |-> created.session]

\* AuthService.verify_otp: the challenge is looked up, compared and popped under the
\* lock; the session is created after the lock is released
verify_otp(tokens, otp, phone_number, code, token, utcnow) ==
    LET normalized_phone == normalize_phone(phone_number)
    IN  IF normalized_phone \notin DOMAIN otp
        THEN [raised |-> "InvalidCredentialsError", otp |-> otp, tokens |-> tokens,
              session |-> NoSession]
        ELSE IF otp[normalized_phone].code # code \/ utcnow > otp[normalized_phone].expires_at
        THEN [raised |-> "InvalidCredentialsError", otp |-> otp, tokens |-> tokens,
              session |-> NoSession]
        ELSE LET created == create_session(tokens, FALSE, token, utcnow)
             IN  [raised |-> "none",
                  otp |-> [ph \in DOMAIN otp \ {normalized_phone} |-> otp[ph]],
                  tokens |-> created.store, session |-> created.session]

\* mutant: a token is still good at the second it expires
validate_inclusive(tokens, token, utcnow) ==
    IF token \notin DOMAIN tokens THEN [tokens |-> tokens, result |-> FALSE]
    ELSE IF utcnow > tokens[token]
    THEN [tokens |-> [t \in DOMAIN tokens \ {token} |-> tokens[t]], result |-> FALSE]
    ELSE [tokens |-> tokens, result |-> TRUE]

\* AuthService.validate
validate(tokens, token, utcnow) ==
    IF token \notin DOMAIN tokens THEN [tokens |-> tokens, result |-> FALSE]
    ELSE IF utcnow >= tokens[token]
    THEN [tokens |-> [t \in DOMAIN tokens \ {token} |-> tokens[t]], result |-> FALSE]
    ELSE [tokens |-> tokens, result |-> TRUE]

\* AuthService.revoke
revoke(tokens, token) == [t \in DOMAIN tokens \ {token} |-> tokens[t]]

\* A social token is [pieces, parts, payload]: its text in pieces, whitespace being
\* pieces of their own; the number of dot-separated parts of the text; and what the
\* second part decodes to: kind "garbage" when base64 or JSON decoding fails, else
\* the object's aud and exp, exp being <<"none">> for a missing key, <<"text">> for a
\* value int() rejects, or <<"int", seconds>>
RECURSIVE lstrip(_)
lstrip(pieces) ==
    IF pieces # <<>> /\ Head(pieces) = " " THEN lstrip(Tail(pieces)) ELSE pieces

RECURSIVE rstrip(_)
rstrip(pieces) ==
    IF pieces # <<>> /\ pieces[Len(pieces)] = " "
    THEN rstrip(SubSeq(pieces, 1, Len(pieces) - 1)) ELSE pieces

\* str.strip()
strip(pieces) == rstrip(lstrip(pieces))

\* settings.*_demo_token of the providers that are compared with one
social_tokens ==
    [apple |-> <<"apple-demo-token">>, facebook |-> <<"facebook-demo-token">>]

\* settings.google_sign_in_client_id
google_client_id == "950124297924-u7tdjrj119g5dbs3a8q1kkkf6236icg2.apps.googleusercontent.com"

\* AuthService._is_google_token_valid, on the stripped text
is_google_token_valid(sanitized_token, social_token, utcnow) ==
    IF sanitized_token = <<>> THEN FALSE
    ELSE IF social_token.parts < 2 THEN FALSE
    ELSE IF social_token.payload.kind = "garbage" THEN FALSE
    ELSE IF social_token.payload.aud # google_client_id THEN FALSE
    ELSE IF social_token.payload.exp = <<"none">> THEN TRUE
    ELSE IF social_token.payload.exp = <<"text">> THEN FALSE
    ELSE social_token.payload.exp[2] > utcnow

\* provider.value.title()
title(provider) ==
    CASE provider = "apple" -> "Apple" [] provider = "google" -> "Google"
      [] OTHER -> "Facebook"

default_user == [email |-> demo_user_email, name |-> "Demo User"]

\* AuthService.authenticate_social
authenticate_social(tokens, provider, social_token, email, name, token, utcnow) ==
    LET sanitized_token == strip(social_token.pieces)
        accepted ==
            IF provider = "google"
            THEN is_google_token_valid(sanitized_token, social_token, utcnow)
            ELSE sanitized_token = social_tokens[provider]
        created == create_session(tokens, TRUE, token, utcnow)
    IN  IF ~accepted
        THEN [raised |-> "InvalidCredentialsError", tokens |-> tokens,
              session |-> NoSession, user |-> PyNone]
        ELSE [raised |-> "none", tokens |-> created.store, session |-> created.session,
              \* email or ..., name or ...: None and the empty text are replaced
              user |-> [email |-> IF email = <<>> THEN default_user.email ELSE email,
                        name |-> IF name \in {PyNone, ""} THEN title(provider) \o " User"
                                 ELSE name]]

(***************************************************************************)
(* Specification SpecSession: calls of the AuthService, one after the      *)
(* other, while time passes.                                               *)
(***************************************************************************)
\* at most MaxIssued tokens are issued and MaxSessionCalls calls made in a run
MaxIssued == 2
MaxSessionCalls == 4

\* the seconds at which calls are made: the start, the last second of a one-time
\* code and the one after it, the second a default session expires
TimePoints == {0, 300, 301, 3600}

\* the demo phone as configured, with "00" for its "+", and another one
PhoneSet ==
    {demo_user_phone, <<"0", "0">> \o Tail(demo_user_phone),
     <<"+", "1", "9", "9", "9", "9", "9", "9", "9", "9", "9", "9">>}

\* secrets.randbelow(1_000_000)
RandomNumbers == {7, 123456}

\* the codes of those numbers, and the number 7 written without its zeros
CodeSet == {"000007", "123456", "7"}

NoPayload == [kind |-> "garbage", aud |-> "", exp |-> <<"none">>]

\* a token that is no JWT, and a JWT of three parts with the given payload
PlainToken(pieces) == [pieces |-> pieces, parts |-> 1, payload |-> NoPayload]
JwtToken(aud, exp) ==
    [pieces |-> <<"jwt">>, parts |-> 3,
     payload |-> [kind |-> "object", aud |-> aud, exp |-> exp]]

SocialRequest(provider, social_token, email, name) ==
    [provider |-> provider, token |-> social_token, email |-> email, name |-> name]

\* no email is the empty sequence; the demo tokens, bare, with whitespace around
\* and sent to another provider, a
\* blank text, and Google tokens: the demo token, a payload that does not decode,
\* another audience, no exp, an exp that is no number, an exp at second 300
SocialRequests ==
    {SocialRequest("apple", PlainToken(<<"apple-demo-token">>), <<>>, PyNone),
     SocialRequest("facebook", PlainToken(<<" ", "facebook-demo-token", " ">>),
                   <<"x", "@", "f">>, "Ada"),
     SocialRequest("facebook", PlainToken(<<"apple-demo-token">>), <<>>, PyNone),
     SocialRequest("apple", PlainToken(<<" ">>), <<>>, PyNone),
     SocialRequest("google", PlainToken(<<" ">>), <<>>, PyNone),
     SocialRequest("google", PlainToken(<<"google-demo-token">>), <<>>, PyNone),
     SocialRequest("google", [pieces |-> <<"jwt">>, parts |-> 3, payload |-> NoPayload],
                   <<>>, PyNone),
     SocialRequest("google", JwtToken("other", <<"none">>), <<>>, PyNone),
     SocialRequest("google", JwtToken(google_client_id, <<"none">>), <<>>, "Ada"),
     SocialRequest("google", JwtToken(google_client_id, <<"text">>), <<>>, PyNone),
     SocialRequest("google", JwtToken(google_client_id, <<"int", 300>>), <<>>, PyNone)}

\* the logins with a password: the demo user's, with and without remember_me, a
\* wrong password and an unknown email
PasswordLogins ==
    {<<demo_user_email, demo_user_password, FALSE>>,
     <<demo_user_email, demo_user_password, TRUE>>,
     <<demo_user_email, "wrong-password", FALSE>>,
     <<<<"x", "@", "f">>, demo_user_password, TRUE>>}

\* secrets.token_urlsafe(32): a token that was never issued (the k-th token issued
\* is called <<"token", k>>), none once MaxIssued tokens are out
FreshSessionTokens ==
    {<<"token", k>> : k \in {Cardinality(DOMAIN session_ghost.issued) + 1}
                              \cap 1..MaxIssued}

\* the tokens a caller can present: those issued so far, and a guess
KnownTokens == DOMAIN session_ghost.issued \cup {<<"guess", 0>>}

SessionEntry ==
    [tokens |-> token_store, otp |-> otp_store, now |-> now, ghost |-> session_ghost]

\* the record of a call that returned a session, or raised
SessionCall(op, arg, code, done, user) ==
    [op |-> op, arg |-> arg, code |-> code, raised |-> done.raised,
     status |-> IF done.raised = "none" THEN 200
                ELSE IF op = "verify_otp" THEN 400 ELSE 401,
     token |-> IF done.raised = "none" THEN done.session.token ELSE NoToken,
     ttl |-> done.session.ttl_seconds,
     expires_at |-> done.session.expires_at,
     user |-> IF done.raised = "none" THEN user ELSE PyNone, result |-> FALSE]

\* the tokens issued so far, with the one of `done` if it returned a session
Issued(done) ==
    IF done.raised # "none" THEN session_ghost.issued
    ELSE [t \in DOMAIN session_ghost.issued \cup {done.session.token} |->
             IF t = done.session.token THEN done.session.expires_at
             ELSE session_ghost.issued[t]]

InitSession ==
    /\ token_store = EmptyDict
    /\ otp_store = EmptyDict
    /\ session_call = NoSessionCall
    /\ session_entry = NoSessionEntry
    /\ session_ghost = NoSessionGhost
    /\ now = 0
    /\ login_request = NoLoginRequest /\ login_response = NoLoginResponse
    /\ auth_entry = [store |-> EmptyDict, now |-> 0]
    /\ ClassifyIdle /\ ToneIdle /\ UndertoneIdle /\ OverlayIdle /\ AnalysisIdle
    /\ RecommendIdle /\ SymmetryIdle /\ BrowserIdle
    /\ InsightIdle /\ RaceIdle /\ HistoryCallIdle

Authenticate ==
    /\ session_ghost.calls < MaxSessionCalls
    /\ \E credentials \in PasswordLogins, token \in FreshSessionTokens :
          LET a == authenticate(token_store, credentials[1], credentials[2],
                                credentials[3], token, now)
              done == [raised |-> a.error, session |-> a.session]
          IN  /\ token_store' = a.store
              /\ session_call' = SessionCall("authenticate", credentials[1],
                                             credentials[2], done, default_user)
              /\ session_ghost' = [session_ghost EXCEPT !.issued = Issued(done),
                                                        !.calls = @ + 1]
    /\ session_entry' = SessionEntry
    /\ UNCHANGED <<otp_store, now, login_request, login_response, auth_entry,
                   classifyVars, toneVars, undertoneVars, overlayVars, analysisVars,
                   recommendVars, symmetryVars, browserVars, insightVars, raceVars,
                   historyCallVars>>

SocialLogin ==
    /\ session_ghost.calls < MaxSessionCalls
    /\ \E request \in SocialRequests, token \in FreshSessionTokens :
          \E done \in {authenticate_social(token_store, request.provider, request.token,
                                           request.email, request.name, token, now)} :
             /\ token_store' = done.tokens
             /\ session_call' = SessionCall("authenticate_social", request, "", done,
                                            done.user)
             /\ session_ghost' = [session_ghost EXCEPT !.issued = Issued(done),
                                                       !.calls = @ + 1]
    /\ session_entry' = SessionEntry
    /\ UNCHANGED <<otp_store, now, login_request, login_response, auth_entry,
                   classifyVars, toneVars, undertoneVars, overlayVars, analysisVars,
                   recommendVars, symmetryVars, browserVars, insightVars, raceVars,
                   historyCallVars>>

RequestOtp ==
    /\ session_ghost.calls < MaxSessionCalls
    /\ \E phone_number \in PhoneSet, n \in RandomNumbers :
          \E done \in {request_otp(otp_store, phone_number, n, now)} :
             /\ otp_store' = done.otp
             /\ session_call' =
                   [NoSessionCall EXCEPT !.op = "request_otp", !.arg = phone_number,
                                         !.code = done.challenge.code,
                                         !.raised = done.raised,
                                         !.status = IF done.raised = "none" THEN 200
                                                    ELSE 404,
                                         !.expires_at = done.challenge.expires_at]
             /\ session_ghost' =
                   IF done.raised # "none"
                   THEN [session_ghost EXCEPT !.calls = @ + 1]
                   ELSE [session_ghost EXCEPT !.requested = done.challenge,
                                              !.consumed = FALSE, !.failed = FALSE,
                                              !.calls = @ + 1]
    /\ session_entry' = SessionEntry
    /\ UNCHANGED <<token_store, now, login_request, login_response, auth_entry,
                   classifyVars, toneVars, undertoneVars, overlayVars, analysisVars,
                   recommendVars, symmetryVars, browserVars, insightVars, raceVars,
                   historyCallVars>>

VerifyOtp ==
    /\ session_ghost.calls < MaxSessionCalls
    /\ \E phone_number \in PhoneSet, code \in CodeSet, token \in FreshSessionTokens :
          \E done \in {verify_otp(token_store, otp_store, phone_number, code, token, now)} :
             /\ otp_store' = done.otp
             /\ token_store' = done.tokens
             /\ session_call' = SessionCall("verify_otp", phone_number, code, done,
                                            default_user)
             /\ session_ghost' =
                   IF done.raised = "none"
                   THEN [session_ghost EXCEPT !.issued = Issued(done),
                                              !.consumed = TRUE, !.calls = @ + 1]
                   ELSE [session_ghost EXCEPT !.failed = TRUE, !.calls = @ + 1]
    /\ session_entry' = SessionEntry
    /\ UNCHANGED <<now, login_request, login_response, auth_entry,
                   classifyVars, toneVars, undertoneVars, overlayVars, analysisVars,
                   recommendVars, symmetryVars, browserVars, insightVars, raceVars,
                   historyCallVars>>

Validate ==
    /\ session_ghost.calls < MaxSessionCalls
    /\ \E token \in KnownTokens :
          \E done \in {validate(token_store, token, now)} :
             /\ token_store' = done.tokens
             /\ session_call' = [NoSessionCall EXCEPT !.op = "validate", !.arg = token,
                                                      !.result = done.result]
             /\ session_ghost' =
                   [session_ghost EXCEPT
                       !.rejected = IF done.result THEN @ ELSE @ \cup {token},
                       !.calls = @ + 1]
    /\ session_entry' = SessionEntry
    /\ UNCHANGED <<otp_store, now, login_request, login_response, auth_entry,
                   classifyVars, toneVars, undertoneVars, overlayVars, analysisVars,
                   recommendVars, symmetryVars, browserVars, insightVars, raceVars,
                   historyCallVars>>

Revoke ==
    /\ session_ghost.calls < MaxSessionCalls
    /\ \E token \in KnownTokens :
          /\ token_store' = revoke(token_store, token)
          /\ session_call' = [NoSessionCall EXCEPT !.op = "revoke", !.arg = token]
          /\ session_ghost' = [session_ghost EXCEPT !.revoked = @ \cup {token},
                                                    !.calls = @ + 1]
    /\ session_entry' = SessionEntry
    /\ UNCHANGED <<otp_store, now, login_request, login_response, auth_entry,
                   classifyVars, toneVars, undertoneVars, overlayVars, analysisVars,
                   recommendVars, symmetryVars, browserVars, insightVars, raceVars,
                   historyCallVars>>

\* time passes
Advance ==
    /\ \E t \in TimePoints : t > now /\ now' = t
    /\ UNCHANGED <<token_store, sessionVars, login_request, login_response, auth_entry,
                   classifyVars, toneVars, undertoneVars, overlayVars, analysisVars,
                   recommendVars, symmetryVars, browserVars, insightVars, raceVars,
                   historyCallVars>>

NextSession ==
    \/ Authenticate \/ SocialLogin \/ RequestOtp \/ VerifyOtp \/ Validate \/ Revoke
    \/ Advance

SpecSession == InitSession /\ [][NextSession]_vars

(***************************************************************************)
(* Claims about the AuthService (checked under SpecSession).               *)
(***************************************************************************)
\* the call answered last was a verify_otp for the phone and with the code of the
\* latest successful request_otp, whose challenge had not expired on entry
VerifiesLatestChallenge ==
    /\ session_call.op = "verify_otp"
    /\ session_entry.ghost.requested.phone_number # <<>>
    /\ normalize_phone(session_call.arg) = session_entry.ghost.requested.phone_number
    /\ session_call.code = session_entry.ghost.requested.code
    /\ session_entry.now <= session_entry.ghost.requested.expires_at

\* C21: after request_otp succeeds for the demo user's phone number, a verify_otp for
\* the same phone with the code that request returned, made before the challenge
\* expires and with no other OTP request in between, succeeds and returns a session
\* for the default user with the default (non-remember) TTL.
C21_OtpVerifySucceeds ==
    (VerifiesLatestChallenge /\ ~session_entry.ghost.consumed) =>
        /\ session_call.raised = "none"
        /\ session_call.status = 200
        /\ session_call.user = default_user
        /\ session_call.ttl = 3600
        /\ session_call.expires_at = session_entry.now + 3600
        /\ session_call.token \in DOMAIN token_store
        /\ token_store[session_call.token] = session_call.expires_at

\* the code requested at second 0 is verified in the last second of its life
C21_Witness ==
    /\ VerifiesLatestChallenge
    /\ ~session_entry.ghost.consumed
    /\ session_call.raised = "none"
    /\ session_entry.now = 300
    /\ session_entry.ghost.requested.expires_at = 300
    /\ session_call.expires_at = 3900

\* C22: verify_otp fails with InvalidCredentialsError (HTTP 400) whenever there is no
\* outstanding challenge for the normalized phone, the supplied code differs from the
\* outstanding challenge's code, or the challenge has expired; a failed verification
\* issues no token and leaves both stores unchanged, so the outstanding challenge can
\* still be verified later with the right code.
C22_FailedVerifyKeepsStores ==
    session_call.op = "verify_otp" =>
        LET before == session_entry
            phone == normalize_phone(session_call.arg)
            refused ==
                \/ phone \notin DOMAIN before.otp
                \/ before.otp[phone].code # session_call.code
                \/ before.now > before.otp[phone].expires_at
        IN  /\ refused =>
                  /\ session_call.raised = "InvalidCredentialsError"
                  /\ session_call.status = 400
                  /\ session_call.token = NoToken
                  /\ otp_store = before.otp
                  /\ token_store = before.tokens
            /\ (~refused /\ before.ghost.failed) => session_call.raised = "none"

\* the code 000007 is outstanding and "7" was sent: refused, and the challenge and the
\* one token issued earlier are still in their stores
C22_Witness ==
    /\ session_call.op = "verify_otp"
    /\ session_call.raised = "InvalidCredentialsError"
    /\ session_call.arg = demo_user_phone
    /\ session_call.code = "7"
    /\ demo_user_phone \in DOMAIN otp_store
    /\ otp_store[demo_user_phone].code = "000007"
    /\ Cardinality(DOMAIN token_store) = 1
    /\ token_store = session_entry.tokens

\* C26: an OTP code is single-use: after a successful verify_otp the challenge is
\* removed from the OTP store, so a second verify_otp with the same phone and code
\* fails unless a new request_otp has been made in between; and a new request_otp
\* replaces the previous challenge for that phone, so at most one challenge per phone
\* is outstanding at any time.
C26_SingleUse ==
    /\ Cardinality(DOMAIN otp_store) <= 1
    /\ \A phone \in DOMAIN otp_store : otp_store[phone] = session_ghost.requested
    /\ (session_call.op = "verify_otp" /\ session_call.raised = "none") =>
          /\ normalize_phone(session_call.arg) \notin DOMAIN otp_store
          /\ ~session_entry.ghost.consumed
    /\ (session_call.op = "verify_otp" /\ session_entry.ghost.consumed) =>
          session_call.raised = "InvalidCredentialsError"
    /\ (session_call.op = "request_otp" /\ session_call.raised = "none") =>
          LET phone == normalize_phone(session_call.arg)
          IN  /\ DOMAIN otp_store = {phone}
              /\ otp_store[phone].code = session_call.code
              /\ otp_store[phone].expires_at = session_entry.now + 300

\* the code that was verified a moment ago is sent again, still within its life
C26_Witness ==
    /\ VerifiesLatestChallenge
    /\ session_entry.ghost.consumed
    /\ session_call.raised = "InvalidCredentialsError"
    /\ Cardinality(DOMAIN token_store) = 1

\* C30: after any sequence of authenticate, authenticate_social, verify_otp, validate
\* and revoke calls, validate(token) returns True exactly when the token was issued
\* by a successful login, has not been revoked, and the current time is strictly
\* before its expiry; once validate has returned False for a token it never returns
\* True for it again, and validating an expired token removes it from the store.
C30_ValidateExactly ==
    session_call.op = "validate" =>
        LET before == session_entry
            token == session_call.arg
            good == /\ token \in DOMAIN before.ghost.issued
                    /\ token \notin before.ghost.revoked
                    /\ before.now < before.ghost.issued[token]
        IN  /\ session_call.result = good
            /\ token \in before.ghost.rejected => session_call.result = FALSE
            /\ (token \in DOMAIN before.tokens /\ before.now >= before.tokens[token]) =>
                  token \notin DOMAIN token_store
            /\ \A t \in DOMAIN before.tokens \ {token} :
                  t \in DOMAIN token_store /\ token_store[t] = before.tokens[t]

\* a session issued at second 0 is validated at second 3600, the second it expires:
\* False, and the token is gone from the store
C30_Witness ==
    /\ session_call.op = "validate"
    /\ session_call.result = FALSE
    /\ session_call.arg \in DOMAIN session_entry.tokens
    /\ session_entry.now = 3600
    /\ session_entry.tokens[session_call.arg] = 3600
    /\ session_call.arg \notin DOMAIN token_store

(***************************************************************************)
(* Specification SpecOtpRace: several threads inside verify_otp at once,   *)
(* against the one challenge that a request_otp stored.  Each statement of *)
(* verify_otp and of _create_session is a step of its thread; the Lock of  *)
(* the service is held by at most one thread.                              *)
(***************************************************************************)
\* the number of request threads
NumThreads == 3

Threads == 1..NumThreads

\* the clock readings of the race: the request, the second of expiry, one second later
RaceTimes == {0, 300, 301}

\* the codes the callers send: the one of the challenge and another one
RaceNumbers == {123456}
RaceCodes == {code_of(n) : n \in RaceNumbers} \cup {"7"}

\* mutant: the lock lets a thread in while another one holds it
can_acquire_any(owner) == TRUE

\* Lock.acquire, at `with self._lock:`: the thread goes on only when the lock is free
can_acquire(owner) == owner = 0

\* a thread that is in no call
IdleVerifier ==
    [pc |-> "idle", code |-> "", found |-> FALSE, challenge |-> NoChallenge,
     token |-> NoToken, expires_at |-> 0, overlapped |-> FALSE]

\* the threads that are inside a call, between its first and its last statement
InCall == {t \in DOMAIN workers : workers[t].pc \notin {"idle", "done", "raised"}}

InitOtpRace ==
    /\ workers = [t \in Threads |-> IdleVerifier]
    /\ lock_owner = 0
    /\ serial_store = <<>>
    /\ otp_store = EmptyDict
    /\ token_store = EmptyDict
    /\ session_ghost = NoSessionGhost
    /\ session_call = NoSessionCall
    /\ session_entry = NoSessionEntry
    /\ now = 0
    /\ login_request = NoLoginRequest /\ login_response = NoLoginResponse
    /\ auth_entry = [store |-> EmptyDict, now |-> 0]
    /\ ClassifyIdle /\ ToneIdle /\ UndertoneIdle /\ OverlayIdle /\ AnalysisIdle
    /\ RecommendIdle /\ SymmetryIdle /\ BrowserIdle
    /\ InsightIdle /\ HistoryCallIdle

otpRaceRest ==
    <<serial_store, session_call, session_entry, login_request, login_response,
      auth_entry, classifyVars, toneVars, undertoneVars, overlayVars, analysisVars,
      recommendVars, symmetryVars, browserVars, insightVars, historyCallVars>>

\* request_otp for the demo phone, once: the challenge the threads race for
RaceRequestOtp ==
    /\ session_ghost.calls = 0
    /\ can_acquire(lock_owner)
    /\ \E n \in RaceNumbers :
          \E done \in {request_otp(otp_store, demo_user_phone, n, now)} :
             /\ otp_store' = done.otp
             /\ session_ghost' = [session_ghost EXCEPT !.requested = done.challenge,
                                                       !.calls = 1]
    /\ UNCHANGED <<workers, lock_owner, token_store, now, otpRaceRest>>

\* a request thread enters verify_otp(demo_user_phone, code)
VerifyEnter ==
    /\ \E t \in Threads, code \in RaceCodes :
          /\ workers[t].pc = "idle"
          /\ workers' = [u \in Threads |->
                IF u = t
                THEN [workers[t] EXCEPT !.pc = "lock", !.code = code,
                                        !.overlapped = InCall # {}]
                ELSE IF u \in InCall THEN [workers[u] EXCEPT !.overlapped = TRUE]
                ELSE workers[u]]
    /\ UNCHANGED <<lock_owner, otp_store, token_store, session_ghost, now, otpRaceRest>>

\* with self._lock:
VerifyAcquire ==
    /\ \E t \in Threads :
          /\ workers[t].pc = "lock"
          /\ can_acquire(lock_owner)
          /\ lock_owner' = t
          /\ workers' = [workers EXCEPT ![t].pc = "get"]
    /\ UNCHANGED <<otp_store, token_store, session_ghost, now, otpRaceRest>>

\* challenge = self._otp_store.get(normalized)
VerifyGet ==
    /\ \E t \in Threads :
          /\ workers[t].pc = "get"
          /\ LET normalized_phone == normalize_phone(demo_user_phone)
                 found == normalized_phone \in DOMAIN otp_store
             IN  workers' = [workers EXCEPT
                    ![t].pc = "check",
                    ![t].found = found,
                    ![t].challenge = IF found THEN otp_store[normalized_phone]
                                     ELSE NoChallenge]
    /\ UNCHANGED <<lock_owner, otp_store, token_store, session_ghost, now, otpRaceRest>>

\* if not challenge or challenge.code != code or utcnow() > challenge.expires_at:
\* raise InvalidCredentialsError, which leaves the with block and frees the lock
VerifyCheck ==
    /\ \E t \in Threads :
          /\ workers[t].pc = "check"
          /\ IF \/ ~workers[t].found
                \/ workers[t].challenge.code # workers[t].code
                \/ now > workers[t].challenge.expires_at
             THEN /\ workers' = [workers EXCEPT ![t].pc = "raised"]
                  /\ lock_owner' = IF lock_owner = t THEN 0 ELSE lock_owner
             ELSE /\ workers' = [workers EXCEPT ![t].pc = "pop"]
                  /\ lock_owner' = lock_owner
    /\ UNCHANGED <<otp_store, token_store, session_ghost, now, otpRaceRest>>

\* self._otp_store.pop(normalized, None), the last statement under the lock
VerifyPop ==
    /\ \E t \in Threads :
          /\ workers[t].pc = "pop"
          /\ otp_store' = [ph \in DOMAIN otp_store \ {normalize_phone(demo_user_phone)} |->
                              otp_store[ph]]
          /\ lock_owner' = IF lock_owner = t THEN 0 ELSE lock_owner
          /\ workers' = [workers EXCEPT ![t].pc = "create"]
    /\ UNCHANGED <<token_store, session_ghost, now, otpRaceRest>>

\* _create_session(remember_me=False): token, ttl and expires_at, before the lock
CreateStamp ==
    /\ \E t \in Threads :
          /\ workers[t].pc = "create"
          /\ workers' = [workers EXCEPT
                ![t].pc = "store",
                ![t].token = <<"token", t>>,
                ![t].expires_at = create_session(token_store, FALSE, <<"token", t>>,
                                                 now).session.expires_at]
    /\ UNCHANGED <<lock_owner, otp_store, token_store, session_ghost, now, otpRaceRest>>

\* with self._lock: self._token_store[token] = expires_at, and the return
CreateStore ==
    /\ \E t \in Threads :
          /\ workers[t].pc = "store"
          /\ can_acquire(lock_owner)
          /\ token_store' = [k \in DOMAIN token_store \cup {workers[t].token} |->
                                IF k = workers[t].token THEN workers[t].expires_at
                                ELSE token_store[k]]
          /\ workers' = [workers EXCEPT ![t].pc = "done"]
    /\ UNCHANGED <<lock_owner, otp_store, session_ghost, now, otpRaceRest>>

\* time passes between two statements
RaceAdvance ==
    /\ \E later \in RaceTimes : later > now /\ now' = later
    /\ UNCHANGED <<workers, lock_owner, otp_store, token_store, session_ghost, otpRaceRest>>

NextOtpRace ==
    \/ RaceRequestOtp
    \/ VerifyEnter
    \/ VerifyAcquire
    \/ VerifyGet
    \/ VerifyCheck
    \/ VerifyPop
    \/ CreateStamp
    \/ CreateStore
    \/ RaceAdvance

SpecOtpRace == InitOtpRace /\ [][NextOtpRace]_vars

\* the threads whose check of the challenge passed
Verified == {t \in DOMAIN workers : workers[t].pc \in {"pop", "create", "store", "done"}}

\* the threads between the acquisition of the lock and the end of the with block
UnderLock == {t \in DOMAIN workers : workers[t].pc \in {"get", "check", "pop"}}

\* C27: when several verify_otp calls with the right code run concurrently against
\* one outstanding challenge, at most one of them passes the check and obtains a
\* session: the look-up, the comparison and the removal of the challenge are done by
\* one thread at a time, the holder of the lock, so that a challenge seen by a thread
\* under the lock is still in the store when that thread pops it.
C27_AtMostOneVerifies ==
    /\ Cardinality(Verified) <= 1
    /\ Cardinality(DOMAIN token_store) <= 1
    /\ Cardinality(UnderLock) <= 1
    /\ \A t \in UnderLock : lock_owner = t
    /\ \A t \in Verified :
          /\ workers[t].code = session_ghost.requested.code
          /\ workers[t].challenge = session_ghost.requested
    /\ \A t \in DOMAIN workers :
          workers[t].pc = "pop" => normalize_phone(demo_user_phone) \in DOMAIN otp_store
    /\ \A t \in DOMAIN workers :
          workers[t].pc = "done" => workers[t].token \in DOMAIN token_store

\* two threads sent the right code while both were inside verify_otp before the
\* challenge expired: one has its session, the other was refused
C27_Witness ==
    \E t, u \in DOMAIN workers :
       /\ t # u
       /\ workers[t].pc = "done" /\ workers[u].pc = "raised"
       /\ workers[t].overlapped /\ workers[u].overlapped
       /\ workers[t].code = session_ghost.requested.code
       /\ workers[u].code = session_ghost.requested.code
       /\ session_ghost.calls = 1
       /\ now <= session_ghost.requested.expires_at
       /\ DOMAIN token_store = {workers[t].token}
       /\ DOMAIN otp_store = {}

(***************************************************************************)
(* Specification SpecHistoryRace: several threads inside create, delete    *)
(* and clear of one HistoryStorage at once.  _load, the change of the      *)
(* loaded list and _save are separate steps of a thread; serial_store is   *)
(* the file that results when the calls run one after the other, in the    *)
(* order in which they return.                                             *)
(***************************************************************************)
\* HistoryStorage._lock, at `with self._lock:` of create, delete and clear; a mutant
\* of it is a storage whose methods do not wait for each other
history_lock_absent(owner) == TRUE

history_lock(owner) == can_acquire(owner)

\* the calls of the threads: create of an entry, delete of the entry that some
\* thread creates, clear
HistoryOps ==
    {[op |-> "create", record_id |-> <<"uuid", 0>>],
     [op |-> "clear", record_id |-> <<"uuid", 0>>]}
    \cup {[op |-> "delete", record_id |-> <<"uuid", k>>] : k \in Threads}

IdleMutator ==
    [pc |-> "idle", op |-> "none", record_id |-> <<"uuid", 0>>, current |-> <<>>,
     updated |-> <<>>, deleted |-> FALSE, count |-> 0, overlapped |-> FALSE]

InitHistoryRace ==
    /\ workers = [t \in Threads |-> IdleMutator]
    /\ lock_owner = 0
    /\ serial_store = <<>>
    /\ history_store = <<>>
    /\ history_call = NoHistoryCall
    /\ at_entry = [history |-> <<>>, calls |-> 0]
    /\ api_request = NoApiRequest /\ api_response = NoApiResponse
    /\ ClassifyIdle /\ ToneIdle /\ UndertoneIdle /\ OverlayIdle /\ AnalysisIdle
    /\ RecommendIdle /\ SymmetryIdle /\ ClockIdle /\ AuthIdle
    /\ InsightIdle /\ SessionIdle

historyRaceRest ==
    <<history_call, at_entry, api_request, api_response, classifyVars, toneVars,
      undertoneVars, overlayVars, analysisVars, recommendVars, symmetryVars, clockVars,
      authVars, insightVars, sessionVars>>

\* a request thread enters create(payload), delete(record_id) or clear()
MutatorEnter ==
    /\ \E t \in Threads, call \in HistoryOps :
          /\ workers[t].pc = "idle"
          /\ workers' = [u \in Threads |->
                IF u = t
                THEN [workers[t] EXCEPT !.pc = "lock", !.op = call.op,
                                        !.record_id = call.record_id,
                                        !.overlapped = InCall # {}]
                ELSE IF u \in InCall THEN [workers[u] EXCEPT !.overlapped = TRUE]
                ELSE workers[u]]
    /\ UNCHANGED <<lock_owner, history_store, serial_store, historyRaceRest>>

\* with self._lock:
MutatorAcquire ==
    /\ \E t \in Threads :
          /\ workers[t].pc = "lock"
          /\ history_lock(lock_owner)
          /\ lock_owner' = t
          /\ workers' = [workers EXCEPT ![t].pc = "load"]
    /\ UNCHANGED <<history_store, serial_store, historyRaceRest>>

\* current = self._load()
MutatorLoad ==
    /\ \E t \in Threads :
          /\ workers[t].pc = "load"
          /\ workers' = [workers EXCEPT ![t].pc = "modify",
                                        ![t].current = history_load(history_store)]
    /\ UNCHANGED <<lock_owner, history_store, serial_store, historyRaceRest>>

\* create: result = payload.to_result(); current.insert(0, result)
\* delete: updated = [item for item in current if str(item.id) != record_id], and
\*         return False, which frees the lock, when nothing was dropped
\* clear: count = len(current)
MutatorModify ==
    /\ \E t \in Threads :
          /\ workers[t].pc = "modify"
          /\ LET current == workers[t].current
                 kept == SelectSeq(current,
                                   LAMBDA item : str_of_id(item) # workers[t].record_id)
                 unchanged == workers[t].op = "delete" /\ Len(kept) = Len(current)
             IN  /\ workers' = [workers EXCEPT
                       ![t].pc = IF unchanged THEN "done" ELSE "save",
                       ![t].updated =
                           IF workers[t].op = "create"
                           THEN <<to_result(CreatePayload("oval"), t, now)>> \o current
                           ELSE IF workers[t].op = "delete" THEN kept
                           ELSE <<>>,
                       ![t].count = Len(current)]
                 /\ lock_owner' = IF unchanged /\ lock_owner = t THEN 0 ELSE lock_owner
                 /\ serial_store' =
                       IF unchanged
                       THEN history_delete(serial_store, workers[t].record_id).file
                       ELSE serial_store
    /\ UNCHANGED <<history_store, historyRaceRest>>

\* self._save(...): the temporary file replaces history_store.json; then the return,
\* which frees the lock
MutatorSave ==
    /\ \E t \in Threads :
          /\ workers[t].pc = "save"
          /\ history_store' = history_save(workers[t].updated)
          /\ lock_owner' = IF lock_owner = t THEN 0 ELSE lock_owner
          /\ workers' = [workers EXCEPT ![t].pc = "done",
                                        ![t].deleted = workers[t].op = "delete"]
          /\ serial_store' =
                IF workers[t].op = "create"
                THEN history_create(serial_store, CreatePayload("oval"), t, now).file
                ELSE IF workers[t].op = "delete"
                THEN history_delete(serial_store, workers[t].record_id).file
                ELSE history_clear(serial_store).file
    /\ UNCHANGED historyRaceRest

NextHistoryRace ==
    \/ MutatorEnter
    \/ MutatorAcquire
    \/ MutatorLoad
    \/ MutatorModify
    \/ MutatorSave

SpecHistoryRace == InitHistoryRace /\ [][NextHistoryRace]_vars

\* the threads between _load and _save
InCriticalSection ==
    {t \in DOMAIN workers : workers[t].pc \in {"load", "modify", "save"}}

\* the threads whose call has returned
Returned(op) == {t \in DOMAIN workers : workers[t].pc = "done" /\ workers[t].op = op}

\* no delete and no clear has been started
OnlyCreates == \A t \in DOMAIN workers : workers[t].op \in {"none", "create"}

\* C28: concurrent create, delete and clear calls on one HistoryStorage lose no
\* update: the load-modify-save of a call is one critical section of the lock holder,
\* the list a thread loaded is still the stored list when it saves, the stored list
\* is always the result of applying the calls that have returned one after the other
\* in the order of their return, and after concurrent create calls with no delete or
\* clear every new entry is in the stored list.
C28_NoLostUpdate ==
    /\ history_store = serial_store
    /\ Cardinality(InCriticalSection) <= 1
    /\ \A t \in InCriticalSection : lock_owner = t
    /\ \A t \in DOMAIN workers :
          workers[t].pc \in {"modify", "save"} =>
              workers[t].current = history_load(history_store)
    /\ OnlyCreates =>
          /\ Len(history_store) = Cardinality(Returned("create"))
          /\ \A t \in Returned("create") :
                \E i \in DOMAIN history_store : history_store[i].id = <<"uuid", t>>

\* two create calls that were inside create at the same time have both returned, and
\* the stored list holds the two new entries
C28_Witness ==
    \E t, u \in DOMAIN workers :
       /\ t # u
       /\ OnlyCreates
       /\ Returned("create") = {t, u}
       /\ workers[t].overlapped /\ workers[u].overlapped
       /\ Len(history_store) = 2
       /\ history_store[1].id = <<"uuid", u>> /\ history_store[2].id = <<"uuid", t>>

====
